---- MODULE Spec2Model ----
(***************************************************************************)
(* A model of the U-Bank navigation planner: the AppGraph data model, the  *)
(* GraphCompiler (graph -> 30x30 maze), the breadth-first reference solver *)
(* of HRMModel, the Planner and the BankService message handlers.          *)
(*                                                                         *)
(* Python dicts are modelled as functions (DOMAIN = the keys), lists as    *)
(* sequences, tuples (r, c) as <<r, c>>.  Long Python loops are unrolled   *)
(* by halving the index range (for loops) or by repeated doubling (while   *)
(* loops) so that the evaluation depth stays logarithmic in the number of  *)
(* iterations; the order of the iterations is the order of the code.       *)
(***************************************************************************)
EXTENDS Integers, Sequences, FiniteSets, TLC

VARIABLES
    grid,              \* GraphCompiler.grid: row -> column -> token
    node_positions,    \* GraphCompiler.node_positions: node id -> <<r, c>>
    node_order,        \* the keys of node_positions in insertion order
    position_to_node,  \* GraphCompiler.position_to_node: <<r, c>> -> node id
    app_graphs,        \* BankService.app_graphs: package -> graph
    current_screen,    \* BankService.current_screen: package -> screen id
    active_plans,      \* BankService.active_plans: requestId -> ExecutionPlan
    plan_app,          \* history: requestId -> the app of the voice_command that
                       \* stored the plan now in active_plans (no field of the class)
    plan_log,          \* history: requestId -> since a plan was last stored under
                       \* it, the step indices reported successful for that plan
                       \* and the number of plan_complete passed to ws.send and
                       \* accepted by the connection for it
    hrm,               \* the solver behind BankService.hrm
    handled,           \* the number of inbound messages handled so far
    pc,                \* which operation acted last
    inp,               \* the arguments of the operation that acted last
    out                \* what that operation returned, passed to ws.send or
                       \* raised, and what it waits on ws.send for

vars == <<grid, node_positions, node_order, position_to_node, app_graphs,
          current_screen, active_plans, plan_app, plan_log, hrm, handled, pc,
          inp, out>>

(***************************************************************************)
(* graph_compiler.py: constants                                            *)
(***************************************************************************)
GRID_SIZE == 30
GRID_TOKENS == GRID_SIZE * GRID_SIZE
WALL == 0
PATH == 1
START == 2
TARGET == 3
NODE_SPACING == 4
BORDER == 1

Max(a, b) == IF a >= b THEN a ELSE b
Min(a, b) == IF a <= b THEN a ELSE b

\* int(math.ceil(math.sqrt(n))) for n >= 1
CeilSqrt(n) == CHOOSE k \in 1..n : k * k >= n /\ (k - 1) * (k - 1) < n
\* int(math.ceil(n / d)) for n >= 0, d >= 1
CeilDiv(n, d) == (n + d - 1) \div d

\* A while loop of the code is a pair of operators: x_run(.., st, k) makes
\* up to 2^k passes from the loop state st, stopping when the loop's condition
\* ends it, and x_loop(.., st, k) makes passes in blocks of 2^k, 2^(k+1), ...
\* until the condition ends the loop, however many passes that takes.  The
\* blocks keep the evaluation from nesting one pass inside the next.

\* TRUE for every v.  TLC evaluates operator arguments lazily; testing
\* Evaluated(v) before v is passed on makes it evaluate v first, which keeps
\* the evaluation of a long loop from nesting one iteration inside the next.
Evaluated(v) == v = v

\* list membership and dict helpers
InSeq(x, s) == \E i \in 1..Len(s) : s[i] = x
EmptyDict == [k \in {} |-> 0]
\* d[k] = v
Put(d, k, v) == (k :> v) @@ d

(***************************************************************************)
(* graph_compiler.py: AppGraph.  A graph is a record                       *)
(*   ids   : the keys of graph.nodes in insertion order                    *)
(*   nbr   : node id -> that node's own edge list (GraphNode.edges)        *)
(*   edges : the explicit GraphEdge list, records                          *)
(*           [from_node, to_node, bidirectional, action]                   *)
(*   label : node id -> GraphNode.label                                    *)
(*   snapshot : node id -> accessibility_snapshot["key_elements"]          *)
(***************************************************************************)
NodeSet(graph) == {graph.ids[i] : i \in 1..Len(graph.ids)}

\* for edge in self.edges: the first loop of get_neighbors
RECURSIVE edge_neighbors(_, _, _, _)
edge_neighbors(graph, node_id, i, neighbors) ==
    IF i > Len(graph.edges) THEN neighbors
    ELSE LET edge == graph.edges[i] IN
         edge_neighbors(graph, node_id, i + 1,
            IF edge.from_node = node_id THEN Append(neighbors, edge.to_node)
            ELSE IF edge.bidirectional /\ edge.to_node = node_id
                 THEN Append(neighbors, edge.from_node)
                 ELSE neighbors)

\* for e in node.edges: if e not in neighbors: neighbors.append(e)
RECURSIVE own_neighbors(_, _, _)
own_neighbors(own, i, neighbors) ==
    IF i > Len(own) THEN neighbors
    ELSE own_neighbors(own, i + 1,
            IF InSeq(own[i], neighbors) THEN neighbors
            ELSE Append(neighbors, own[i]))

get_neighbors(graph, node_id) ==
    LET neighbors == edge_neighbors(graph, node_id, 1, <<>>) IN
    IF node_id \in DOMAIN graph.nbr
    THEN own_neighbors(graph.nbr[node_id], 1, neighbors)
    ELSE neighbors

(***************************************************************************)
(* GraphCompiler._bfs_order.  The loop state is [visited, queue, seen].    *)
(***************************************************************************)
RECURSIVE bfs_order_enqueue(_, _, _, _)
bfs_order_enqueue(graph, nb, i, st) ==
    IF i > Len(nb) THEN st
    ELSE bfs_order_enqueue(graph, nb, i + 1,
            IF nb[i] \notin st.seen /\ nb[i] \in NodeSet(graph)
            THEN [st EXCEPT !.seen = @ \cup {nb[i]}, !.queue = Append(@, nb[i])]
            ELSE st)

bfs_order_step(graph, st) ==
    LET node == Head(st.queue) IN
    bfs_order_enqueue(graph, get_neighbors(graph, node), 1,
        [st EXCEPT !.queue = Tail(@), !.visited = Append(@, node)])

RECURSIVE bfs_order_run(_, _, _)
bfs_order_run(graph, st, k) ==
    IF st.queue = <<>> THEN st
    ELSE IF k = 0 THEN bfs_order_step(graph, st)
    ELSE bfs_order_run(graph, bfs_order_run(graph, st, k - 1), k - 1)

\* while queue
RECURSIVE bfs_order_loop(_, _, _)
bfs_order_loop(graph, st, k) ==
    IF st.queue = <<>> THEN st
    ELSE bfs_order_loop(graph, bfs_order_run(graph, st, k), k + 1)

_bfs_order(graph, start) ==
    bfs_order_loop(graph, [visited |-> <<>>, queue |-> <<start>>, seen |-> {start}],
                   0).visited

(***************************************************************************)
(* GraphCompiler._layout_nodes.  A compiler state cs is the record         *)
(* [grid, node_positions, node_order, position_to_node]; node_order is the *)
(* insertion order of the dict node_positions, which its items() follow.   *)
(* exhausted is no field of the class: it records the nodes whose probing  *)
(* loop ended at its break, with no free cell found.                       *)
(***************************************************************************)
EmptyGrid == [r \in 0..(GRID_SIZE - 1) |-> [c \in 0..(GRID_SIZE - 1) |-> WALL]]
EmptyCompiler == [grid |-> EmptyGrid, node_positions |-> EmptyDict,
                  node_order |-> <<>>, position_to_node |-> EmptyDict,
                  exhausted |-> {}]

\* for nid in node_ids: if nid not in ordered: ordered.append(nid)
RECURSIVE add_disconnected(_, _, _, _)
add_disconnected(node_ids, ordered, lo, hi) ==
    IF lo > hi THEN ordered
    ELSE IF lo = hi
         THEN IF InSeq(node_ids[lo], ordered) THEN ordered
              ELSE Append(ordered, node_ids[lo])
    ELSE LET mid == (lo + hi) \div 2
             first == add_disconnected(node_ids, ordered, lo, mid)
         IN IF Evaluated(first) THEN add_disconnected(node_ids, first, mid + 1, hi)
            ELSE first

\* the pass without "if r >= GRID_SIZE - BORDER: break"
probe_step_never_breaking(p) ==
    LET c1 == p.c + 1
        wrap == c1 >= GRID_SIZE - BORDER
    IN [r |-> IF wrap THEN p.r + 1 ELSE p.r,
        c |-> IF wrap THEN BORDER + 1 ELSE c1,
        brk |-> FALSE]

\* one pass of "while (r, c) in self.position_to_node"; p is [r, c, brk]
probe_step(p) ==
    LET c1 == p.c + 1
        wrap == c1 >= GRID_SIZE - BORDER
        c2 == IF wrap THEN BORDER + 1 ELSE c1
        r2 == IF wrap THEN p.r + 1 ELSE p.r
    IN [r |-> r2, c |-> c2, brk |-> r2 >= GRID_SIZE - BORDER]

RECURSIVE probe_run(_, _, _)
probe_run(p2n, p, k) ==
    IF p.brk \/ <<p.r, p.c>> \notin DOMAIN p2n THEN p
    ELSE IF k = 0 THEN probe_step(p)
    ELSE probe_run(p2n, probe_run(p2n, p, k - 1), k - 1)

\* while (r, c) in self.position_to_node, left at its break
RECURSIVE probe_loop(_, _, _)
probe_loop(p2n, p, k) ==
    IF p.brk \/ <<p.r, p.c>> \notin DOMAIN p2n THEN p
    ELSE probe_loop(p2n, probe_run(p2n, p, k), k + 1)

\* the body of "for idx, node_id in enumerate(ordered)"
place_node(cs, ordered, idx, cols, row_spacing, col_spacing) ==
    LET node_id == ordered[idx + 1]
        row_idx == idx \div cols
        col_idx == idx % cols
        r0 == Min(BORDER + 1 + row_idx * row_spacing, GRID_SIZE - BORDER - 1)
        c0 == Min(BORDER + 1 + col_idx * col_spacing, GRID_SIZE - BORDER - 1)
        p == probe_loop(cs.position_to_node, [r |-> r0, c |-> c0, brk |-> FALSE], 0)
    IN [grid |-> [cs.grid EXCEPT ![p.r][p.c] = PATH],
        node_positions |-> Put(cs.node_positions, node_id, <<p.r, p.c>>),
        node_order |-> IF node_id \in DOMAIN cs.node_positions THEN cs.node_order
                       ELSE Append(cs.node_order, node_id),
        position_to_node |-> Put(cs.position_to_node, <<p.r, p.c>>, node_id),
        exhausted |-> IF p.brk THEN cs.exhausted \cup {node_id} ELSE cs.exhausted]

RECURSIVE place_nodes(_, _, _, _, _, _, _)
place_nodes(cs, ordered, lo, hi, cols, row_spacing, col_spacing) ==
    IF lo > hi THEN cs
    ELSE IF lo = hi THEN place_node(cs, ordered, lo, cols, row_spacing, col_spacing)
    ELSE LET mid == (lo + hi) \div 2
             first == place_nodes(cs, ordered, lo, mid, cols, row_spacing, col_spacing)
         IN IF Evaluated(first)
            THEN place_nodes(first, ordered, mid + 1, hi, cols, row_spacing, col_spacing)
            ELSE first

_layout_nodes(cs, graph) ==
    IF graph.ids = <<>> THEN cs
    ELSE
    LET node_ids == graph.ids
        n == Len(node_ids)
        usable_size == GRID_SIZE - 2 * BORDER
        cols == Max(1, CeilSqrt(n))
        rows == Max(1, CeilDiv(n, cols))
        col_spacing0 == Max(NODE_SPACING, usable_size \div Max(cols, 1))
        row_spacing0 == Max(NODE_SPACING, usable_size \div Max(rows, 1))
        col_spacing == IF cols > 1
                       THEN Min(col_spacing0, (usable_size - 1) \div Max(cols - 1, 1))
                       ELSE usable_size \div 2
        row_spacing == IF rows > 1
                       THEN Min(row_spacing0, (usable_size - 1) \div Max(rows - 1, 1))
                       ELSE usable_size \div 2
        ordered == add_disconnected(node_ids, _bfs_order(graph, node_ids[1]), 1, n)
    IN place_nodes(cs, ordered, 0, Len(ordered) - 1, cols, row_spacing, col_spacing)

(***************************************************************************)
(* GraphCompiler._trace_l_path and _trace_edges                            *)
(***************************************************************************)
MarkPath(g, r, c) == IF g[r][c] = WALL THEN [g EXCEPT ![r][c] = PATH] ELSE g

\* The k-th pass of "while c != c2" marks (r1, c + k * c_step); passes lo..hi
RECURSIVE trace_horizontal_passes(_, _, _, _, _, _)
trace_horizontal_passes(g, r1, c, c_step, lo, hi) ==
    IF lo > hi THEN g
    ELSE IF lo = hi THEN MarkPath(g, r1, c + lo * c_step)
    ELSE LET mid == (lo + hi) \div 2
             first == trace_horizontal_passes(g, r1, c, c_step, lo, mid)
         IN IF Evaluated(first)
            THEN trace_horizontal_passes(first, r1, c, c_step, mid + 1, hi)
            ELSE first

\* while c != c2: mark (r1, c); c += c_step
trace_horizontal(g, r1, c, c2, c_step) ==
    trace_horizontal_passes(g, r1, c, c_step, 0, (c2 - c) * c_step - 1)

\* The k-th pass of "while r != r2" marks (r + k * r_step, c2); passes lo..hi
RECURSIVE trace_vertical_passes(_, _, _, _, _, _)
trace_vertical_passes(g, r, c2, r_step, lo, hi) ==
    IF lo > hi THEN g
    ELSE IF lo = hi THEN MarkPath(g, r + lo * r_step, c2)
    ELSE LET mid == (lo + hi) \div 2
             first == trace_vertical_passes(g, r, c2, r_step, lo, mid)
         IN IF Evaluated(first)
            THEN trace_vertical_passes(first, r, c2, r_step, mid + 1, hi)
            ELSE first

\* while r != r2: mark (r, c2); r += r_step
trace_vertical(g, r, r2, c2, r_step) ==
    trace_vertical_passes(g, r, c2, r_step, 0, (r2 - r) * r_step - 1)

_trace_l_path(g, r1, c1, r2, c2) ==
    LET c_step == IF c2 >= c1 THEN 1 ELSE -1
        g1 == MarkPath(trace_horizontal(g, r1, c1, c2, c_step), r1, c2)
        r_step == IF r2 >= r1 THEN 1 ELSE -1
    IN IF Evaluated(g1) THEN MarkPath(trace_vertical(g1, r1, r2, c2, r_step), r2, c2)
       ELSE g1

\* The loop state of _trace_edges is t = [grid, traced].
trace_pair(t, np, a, b) ==
    IF a \notin DOMAIN np \/ b \notin DOMAIN np THEN t.grid
    ELSE _trace_l_path(t.grid, np[a][1], np[a][2], np[b][1], np[b][2])

\* for edge in graph.edges
RECURSIVE trace_explicit(_, _, _, _)
trace_explicit(t, np, edges, i) ==
    IF i > Len(edges) THEN t
    ELSE LET edge == edges[i]
             key == <<edge.from_node, edge.to_node>>
         IN IF key \in t.traced THEN trace_explicit(t, np, edges, i + 1)
            ELSE LET present == edge.from_node \in DOMAIN np /\ edge.to_node \in DOMAIN np
                     traced1 == t.traced \cup {key}
                 IN trace_explicit(
                      [grid |-> trace_pair(t, np, edge.from_node, edge.to_node),
                       traced |-> IF present /\ edge.bidirectional
                                  THEN traced1 \cup {<<edge.to_node, edge.from_node>>}
                                  ELSE traced1],
                      np, edges, i + 1)

\* for neighbor_id in node.edges
RECURSIVE trace_own(_, _, _, _, _)
trace_own(t, np, node_id, own, i) ==
    IF i > Len(own) THEN t
    ELSE LET key == <<node_id, own[i]>> IN
         IF key \in t.traced THEN trace_own(t, np, node_id, own, i + 1)
         ELSE trace_own([grid |-> trace_pair(t, np, node_id, own[i]),
                         traced |-> t.traced \cup {key}],
                        np, node_id, own, i + 1)

\* for node_id, node in graph.nodes.items()
RECURSIVE trace_nodes(_, _, _, _, _)
trace_nodes(t, np, graph, lo, hi) ==
    IF lo > hi THEN t
    ELSE IF lo = hi
         THEN trace_own(t, np, graph.ids[lo], graph.nbr[graph.ids[lo]], 1)
    ELSE LET mid == (lo + hi) \div 2
             first == trace_nodes(t, np, graph, lo, mid)
         IN IF Evaluated(first) THEN trace_nodes(first, np, graph, mid + 1, hi)
            ELSE first

_trace_edges(cs, graph) ==
    LET t0 == trace_explicit([grid |-> cs.grid, traced |-> {}],
                             cs.node_positions, graph.edges, 1)
        t1 == trace_nodes(t0, cs.node_positions, graph, 1, Len(graph.ids))
    IN [cs EXCEPT !.grid = t1.grid]

(***************************************************************************)
(* GraphCompiler.compile.  The result is [cs, raised, ...]: cs is the      *)
(* compiler's state afterwards (also when it raises), raised the           *)
(* ValueError, if any, and otherwise the fields of the returned dict.      *)
(***************************************************************************)
\* flat_grid: for row in self.grid: flat_grid.extend(row)
Flatten(g) == [i \in 1..GRID_TOKENS |-> g[(i - 1) \div GRID_SIZE][(i - 1) % GRID_SIZE]]

\* Steps 1 and 2 of compile, from the reset state
compile_layout(graph) == _trace_edges(_layout_nodes(EmptyCompiler, graph), graph)

\* Steps 3 and 4 of compile
compile_mark(cs1, start_node, target_node) ==
    LET np == cs1.node_positions
    IN IF start_node \notin DOMAIN np
       THEN [cs |-> cs1, raised |-> "start_not_found"]
       ELSE IF target_node \notin DOMAIN np
       THEN [cs |-> cs1, raised |-> "target_not_found"]
       ELSE LET g2 == [cs1.grid EXCEPT ![np[start_node][1]][np[start_node][2]] = START]
                g3 == [g2 EXCEPT ![np[target_node][1]][np[target_node][2]] = TARGET]
            IN [cs |-> [cs1 EXCEPT !.grid = g3],
                raised |-> "none",
                grid |-> Flatten(g3),
                width |-> GRID_SIZE,
                height |-> GRID_SIZE,
                node_positions |-> np,
                node_order |-> cs1.node_order,
                position_to_node |-> cs1.position_to_node,
                start_pos |-> np[start_node],
                target_pos |-> np[target_node]]

compile(graph, start_node, target_node) ==
    compile_mark(compile_layout(graph), start_node, target_node)

(***************************************************************************)
(* GraphCompiler.decode_hrm_path.  node_positions is the dict as the pair  *)
(* (mapping, key order).                                                   *)
(***************************************************************************)
\* for node_id, pos in node_positions.items(): pos_to_node[pos] = node_id
RECURSIVE reverse_mapping(_, _, _, _, _)
reverse_mapping(np, order, lo, hi, pos_to_node) ==
    IF lo > hi THEN pos_to_node
    ELSE IF lo = hi THEN Put(pos_to_node, np[order[lo]], order[lo])
    ELSE LET mid == (lo + hi) \div 2
             first == reverse_mapping(np, order, lo, mid, pos_to_node)
         IN IF Evaluated(first) THEN reverse_mapping(np, order, mid + 1, hi, first)
            ELSE first

\* for r, c in hrm_path
RECURSIVE extract_nodes(_, _, _, _, _)
extract_nodes(hrm_path, pos_to_node, lo, hi, node_sequence) ==
    IF lo > hi THEN node_sequence
    ELSE IF lo = hi
         THEN IF hrm_path[lo] \in DOMAIN pos_to_node
              THEN LET node_id == pos_to_node[hrm_path[lo]] IN
                   IF node_sequence = <<>> \/ node_sequence[Len(node_sequence)] /= node_id
                   THEN Append(node_sequence, node_id)
                   ELSE node_sequence
              ELSE node_sequence
    ELSE LET mid == (lo + hi) \div 2
             first == extract_nodes(hrm_path, pos_to_node, lo, mid, node_sequence)
         IN IF Evaluated(first)
            THEN extract_nodes(hrm_path, pos_to_node, mid + 1, hi, first)
            ELSE first

decode_hrm_path(hrm_path, np, order) ==
    LET pos_to_node == reverse_mapping(np, order, 1, Len(order), EmptyDict) IN
    extract_nodes(hrm_path, pos_to_node, 1, Len(hrm_path), <<>>)

(***************************************************************************)
(* hrm_service.py: HRMModel.  A grid is the flat token list of the solver  *)
(* boundary, a sequence of width * height tokens in row-major order; the   *)
(* cell (r, c) of grid_2d is grid[r * width + c] (0-based).                *)
(***************************************************************************)
Cell(flat, width, r, c) == flat[r * width + c + 1]

\* the move to the left forgotten
directions_without_left == <<(<<-1, 0>>), (<<1, 0>>), (<<0, 1>>)>>

\* the neighbours explored in the opposite order: right, left, down, up
directions_right_first == <<(<<0, 1>>), (<<0, -1>>), (<<1, 0>>), (<<-1, 0>>)>>

\* directions = [(-1, 0), (1, 0), (0, -1), (0, 1)]: up, down, left, right
directions == <<(<<-1, 0>>), (<<1, 0>>), (<<0, -1>>), (<<0, 1>>)>>

\* for dr, dc in directions: the loop state is b = [queue, visited]
RECURSIVE bfs_expand(_, _, _, _, _, _, _)
bfs_expand(flat, width, height, pos, path, i, b) ==
    IF i > Len(directions) THEN b
    ELSE LET new_row == pos[1] + directions[i][1]
             new_col == pos[2] + directions[i][2]
             ok == /\ 0 <= new_row /\ new_row < height
                   /\ 0 <= new_col /\ new_col < width
                   /\ <<new_row, new_col>> \notin b.visited
                   /\ Cell(flat, width, new_row, new_col) /= WALL
         IN bfs_expand(flat, width, height, pos, path, i + 1,
               IF ok THEN [queue |-> Append(b.queue,
                                      <<(<<new_row, new_col>>),
                                        Append(path, <<new_row, new_col>>)>>),
                           visited |-> b.visited \cup {<<new_row, new_col>>}]
               ELSE b)

\* one pass of "while queue"; st is [queue, visited, done, path]
bfs_step(flat, width, height, target, st) ==
    LET pos == Head(st.queue)[1]
        path == Head(st.queue)[2]
    IN IF pos = target
       THEN [st EXCEPT !.queue = Tail(@), !.done = TRUE, !.path = path]
       ELSE LET b == bfs_expand(flat, width, height, pos, path, 1,
                                [queue |-> Tail(st.queue), visited |-> st.visited])
            IN [st EXCEPT !.queue = b.queue, !.visited = b.visited]

RECURSIVE bfs_run(_, _, _, _, _, _)
bfs_run(flat, width, height, target, st, k) ==
    IF st.done \/ st.queue = <<>> THEN st
    ELSE IF k = 0 THEN bfs_step(flat, width, height, target, st)
    ELSE bfs_run(flat, width, height, target,
                 bfs_run(flat, width, height, target, st, k - 1), k - 1)

\* while queue, left when the target is popped
RECURSIVE bfs_loop(_, _, _, _, _, _)
bfs_loop(flat, width, height, target, st, k) ==
    IF st.done \/ st.queue = <<>> THEN st
    ELSE bfs_loop(flat, width, height, target,
                  bfs_run(flat, width, height, target, st, k), k + 1)

\* HRMModel._bfs_solve; returns the path, <<>> when there is none
_bfs_solve(flat, start, target, width, height) ==
    bfs_loop(flat, width, height, target,
             [queue |-> <<(<<start, <<start>>>>)>>, visited |-> {start},
              done |-> FALSE, path |-> <<>>],
             0).path

\* HRMModel._extract_path_from_output: one pass of "while current != target";
\* w is [path, current, visited, failed]
extract_step(output_grid, target, width, height, w) ==
    LET r == w.current[1]
        c == w.current[2]
        ok(i) == LET nr == r + directions[i][1]
                     nc == c + directions[i][2]
                 IN /\ 0 <= nr /\ nr < height
                    /\ 0 <= nc /\ nc < width
                    /\ <<nr, nc>> \notin w.visited
                    /\ \/ Cell(output_grid, width, nr, nc) \in {1, 3}
                       \/ <<nr, nc>> = target
    IN IF \E i \in 1..Len(directions) : ok(i)
       THEN LET i == CHOOSE j \in 1..Len(directions) :
                        ok(j) /\ \A h \in 1..(j - 1) : ~ok(h)
                next == <<r + directions[i][1], c + directions[i][2]>>
            IN [w EXCEPT !.path = Append(@, next), !.visited = @ \cup {next},
                         !.current = next]
       ELSE [w EXCEPT !.failed = TRUE]

RECURSIVE extract_run(_, _, _, _, _, _)
extract_run(output_grid, target, width, height, w, k) ==
    IF w.failed \/ w.current = target THEN w
    ELSE IF k = 0 THEN extract_step(output_grid, target, width, height, w)
    ELSE extract_run(output_grid, target, width, height,
                     extract_run(output_grid, target, width, height, w, k - 1), k - 1)

\* while current != target, left at "return []" when no cell is found
RECURSIVE extract_loop(_, _, _, _, _, _)
extract_loop(output_grid, target, width, height, w, k) ==
    IF w.failed \/ w.current = target THEN w
    ELSE extract_loop(output_grid, target, width, height,
                      extract_run(output_grid, target, width, height, w, k), k + 1)

_extract_path_from_output(output_grid, start, target, width, height) ==
    LET w == extract_loop(output_grid, target, width, height,
                          [path |-> <<start>>, current |-> start, visited |-> {start},
                           failed |-> FALSE], 0)
    IN IF w.failed THEN <<>> ELSE w.path

\* predictions of the forward pass on the grid.  The neural model is an
\* external oracle: model is [kind |-> "output", output_grid |-> g] when it
\* predicts the token grid g on this grid, and [kind |-> "paves"] for a
\* network that on every grid predicts PATH where the input holds WALL and
\* the input's token elsewhere.
predictions(flat, model) ==
    IF model.kind = "paves"
    THEN [i \in 1..Len(flat) |-> IF flat[i] = WALL THEN PATH ELSE flat[i]]
    ELSE model.output_grid

\* predictions.reshape(height, width) raises unless there are height * width
\* predictions
reshape_raises(tokens, height, width) == Len(tokens) /= height * width

\* the extracted path returned as it is, without the breadth-first fallback
_hrm_solve_without_fallback(flat, width, height, start, target, model) ==
    IF model.kind = "raises" THEN _bfs_solve(flat, start, target, width, height)
    ELSE IF reshape_raises(predictions(flat, model), height, width)
    THEN _bfs_solve(flat, start, target, width, height)
    ELSE _extract_path_from_output(predictions(flat, model), start, target,
                                   width, height)

\* HRMModel._hrm_solve; model is [kind |-> "raises"] when the forward pass
\* raises, else a network that predicts a token grid.  Whatever the try
\* block raises, the forward pass or the reshape, ends in the breadth-first
\* solver.
_hrm_solve(flat, width, height, start, target, model) ==
    IF model.kind = "raises" THEN _bfs_solve(flat, start, target, width, height)
    ELSE IF reshape_raises(predictions(flat, model), height, width)
    THEN _bfs_solve(flat, start, target, width, height)
    ELSE LET path == _extract_path_from_output(predictions(flat, model), start,
                                               target, width, height)
         IN IF path /= <<>> THEN path
            ELSE _bfs_solve(flat, start, target, width, height)

\* the last cell holding the token in row-major order, <<>> (None) if none
FindToken(flat, width, height, token) ==
    LET hits == {i \in 1..(width * height) : flat[i] = token} IN
    IF hits = {} THEN <<>>
    ELSE LET i == CHOOSE j \in hits : \A h \in hits : h <= j IN
         <<(i - 1) \div width, (i - 1) % width>>

\* HRMModel.infer; model is [kind |-> "bfs"] when use_bfs_fallback is set or
\* no model is loaded.  Returns [path, success].
infer(flat, width, height, model) ==
    LET solve(start, target) ==
            IF model.kind = "bfs"
            THEN _bfs_solve(flat, start, target, width, height)
            ELSE _hrm_solve(flat, width, height, start, target, model)
        result(path) == [path |-> path, success |-> Len(path) > 0]
        located(start, target) ==
            IF start = <<>> \/ target = <<>> THEN [path |-> <<>>, success |-> FALSE]
            ELSE result(solve(start, target))
    IN located(FindToken(flat, width, height, START),
               FindToken(flat, width, height, TARGET))

(***************************************************************************)
(* graph_compiler.py: AppGraph.get_edge; None is the empty dict            *)
(***************************************************************************)
RECURSIVE get_edge_from(_, _, _, _)
get_edge_from(graph, from_id, to_id, i) ==
    IF i > Len(graph.edges) THEN EmptyDict
    ELSE LET edge == graph.edges[i] IN
         IF edge.from_node = from_id /\ edge.to_node = to_id THEN edge
         ELSE IF edge.bidirectional /\ edge.to_node = from_id /\ edge.from_node = to_id
              THEN edge
              ELSE get_edge_from(graph, from_id, to_id, i + 1)

get_edge(graph, from_id, to_id) == get_edge_from(graph, from_id, to_id, 1)

(***************************************************************************)
(* planner.py.  An intent is [name, params]; params is the dict of the     *)
(* extracted parameters (keys among amount, recipient, source, service).   *)
(* An ActionStep is [index, action, selector, value, expected_screen,      *)
(* timeout_ms]; its description, a text for display, is left out.          *)
(***************************************************************************)
INTENT_CHECKPOINTS ==
    [send_money |-> <<"home", "transfers", "send_contact", "enter_amount",
                      "confirm_send", "success">>,
     send_money_from_pocket |-> <<"home", "pockets", "pocket_detail", "withdraw_pocket",
                                  "home", "transfers", "send_contact", "enter_amount",
                                  "confirm_send", "success">>,
     check_balance |-> <<"home">>,
     transfer_pocket |-> <<"home", "pockets", "pocket_detail", "withdraw_pocket">>,
     pay_bill |-> <<"home", "payments", "pay_bill">>,
     transaction_history |-> <<"home">>]

\* ActionStep.timeout_ms default
TIMEOUT_MS == 5000
\* estimated_time_ms = len(steps) * 2000
STEP_COST_MS == 2000

\* dict.get(key, default)
Get(d, k, default) == IF k \in DOMAIN d THEN d[k] ELSE default

\* str.startswith
startswith(str, prefix) ==
    Len(str) >= Len(prefix) /\ SubSeq(str, 1, Len(prefix)) = prefix

\* str.replace(old, ""): every occurrence of old removed, left to right
RECURSIVE remove_all(_, _, _)
remove_all(str, old, i) ==
    IF i > Len(str) THEN ""
    ELSE IF i + Len(old) - 1 <= Len(str) /\ SubSeq(str, i, i + Len(old) - 1) = old
         THEN remove_all(str, old, i + Len(old))
         ELSE SubSeq(str, i, i) \o remove_all(str, old, i + 1)

\* format(n, ","): the sign, then the decimal digits in groups of three
RECURSIVE format_thousands(_)
format_thousands(n) ==
    IF n < 0 THEN "-" \o format_thousands(0 - n)
    ELSE IF n < 1000 THEN ToString(n)
    ELSE LET rest == n % 1000 IN
         format_thousands(n \div 1000) \o "," \o
         (IF rest < 10 THEN "00" ELSE IF rest < 100 THEN "0" ELSE "") \o ToString(rest)

\* the "Remove duplicates while preserving order" loop
RECURSIVE dedup_from(_, _, _, _)
dedup_from(checkpoints, i, seen, deduped) ==
    IF i > Len(checkpoints) THEN deduped
    ELSE LET cp == checkpoints[i] IN
         IF cp \notin seen \/ cp = "home"
         THEN dedup_from(checkpoints, i + 1, seen \cup {cp}, Append(deduped, cp))
         ELSE dedup_from(checkpoints, i + 1, seen, deduped)

\* the deduplication loop left out
dedup_keeps_all(checkpoints) == checkpoints

dedup(checkpoints) == dedup_from(checkpoints, 1, {}, <<>>)

\* the table lookup defaulting to the hub: INTENT_CHECKPOINTS.get(key, ["home"])
_resolve_checkpoints_via_home(intent, from_screen) ==
    LET intent_key == IF /\ intent.name = "send_money"
                         /\ startswith(Get(intent.params, "source", ""), "bolsillo")
                      THEN "send_money_from_pocket"
                      ELSE intent.name
        checkpoints == Get(INTENT_CHECKPOINTS, intent_key, <<"home">>)
    IN dedup(IF checkpoints[1] /= from_screen
             THEN <<from_screen>> \o checkpoints
             ELSE checkpoints)

\* Planner._resolve_checkpoints
_resolve_checkpoints(intent, from_screen) ==
    LET intent_key == IF /\ intent.name = "send_money"
                         /\ startswith(Get(intent.params, "source", ""), "bolsillo")
                      THEN "send_money_from_pocket"
                      ELSE intent.name
        checkpoints == Get(INTENT_CHECKPOINTS, intent_key, <<>>)
    IN IF checkpoints = <<>> THEN <<from_screen>>
       ELSE dedup(IF checkpoints[1] /= from_screen
                  THEN <<from_screen>> \o checkpoints
                  ELSE checkpoints)

\* Planner._bfs_graph_path: one pass of "while queue"; st is [queue, visited, done, path]
RECURSIVE graph_bfs_enqueue(_, _, _, _, _)
graph_bfs_enqueue(graph, nb, path, i, st) ==
    IF i > Len(nb) THEN st
    ELSE graph_bfs_enqueue(graph, nb, path, i + 1,
            IF nb[i] \notin st.visited /\ nb[i] \in NodeSet(graph)
            THEN [st EXCEPT !.visited = @ \cup {nb[i]},
                            !.queue = Append(@, <<nb[i], Append(path, nb[i])>>)]
            ELSE st)

graph_bfs_step(graph, target, st) ==
    LET current == Head(st.queue)[1]
        path == Head(st.queue)[2]
    IN IF current = target
       THEN [st EXCEPT !.queue = Tail(@), !.done = TRUE, !.path = path]
       ELSE graph_bfs_enqueue(graph, get_neighbors(graph, current), path, 1,
                              [st EXCEPT !.queue = Tail(@)])

RECURSIVE graph_bfs_run(_, _, _, _)
graph_bfs_run(graph, target, st, k) ==
    IF st.done \/ st.queue = <<>> THEN st
    ELSE IF k = 0 THEN graph_bfs_step(graph, target, st)
    ELSE graph_bfs_run(graph, target, graph_bfs_run(graph, target, st, k - 1), k - 1)

\* while queue, left when the target is popped
RECURSIVE graph_bfs_loop(_, _, _, _)
graph_bfs_loop(graph, target, st, k) ==
    IF st.done \/ st.queue = <<>> THEN st
    ELSE graph_bfs_loop(graph, target, graph_bfs_run(graph, target, st, k), k + 1)

_bfs_graph_path(graph, start, target) ==
    graph_bfs_loop(graph, target,
                   [queue |-> <<(<<start, <<start>>>>)>>, visited |-> {start},
                    done |-> FALSE, path |-> <<>>],
                   0).path

\* Planner._build_action_step
_build_action_step(graph, index, from_node, to_node) ==
    LET edge == get_edge(graph, from_node, to_node)
        key_elements == IF to_node \in NodeSet(graph) THEN graph.snapshot[to_node]
                        ELSE <<>>
        label == IF to_node \in NodeSet(graph) THEN graph.label[to_node] ELSE to_node
    IN IF DOMAIN edge /= {} /\ DOMAIN edge.action /= {}
       THEN [index |-> index,
             action |-> Get(edge.action, "type", "tap"),
             selector |-> Get(edge.action, "selector", EmptyDict),
             value |-> "", expected_screen |-> to_node, timeout_ms |-> TIMEOUT_MS]
       ELSE IF key_elements /= <<>>
       THEN [index |-> index, action |-> "tap",
             selector |-> [id |-> Get(key_elements[1], "id", ""),
                           text |-> Get(key_elements[1], "text", ""),
                           content_desc |-> Get(key_elements[1], "content_desc", "")],
             value |-> "", expected_screen |-> to_node, timeout_ms |-> TIMEOUT_MS]
       ELSE [index |-> index, action |-> "tap",
             selector |-> [text |-> label, content_desc |-> label],
             value |-> "", expected_screen |-> to_node, timeout_ms |-> TIMEOUT_MS]

\* Planner._build_param_steps
_build_param_steps(start_index, screen, intent) ==
    LET params == intent.params
        amount_steps ==
            IF screen = "enter_amount" /\ "amount" \in DOMAIN params
            THEN <<[index |-> start_index, action |-> "fill",
                    selector |-> [id |-> "amount_input", class |-> "android.widget.EditText"],
                    value |-> ToString(params["amount"]),
                    expected_screen |-> screen, timeout_ms |-> TIMEOUT_MS]>>
            ELSE <<>>
        idx1 == start_index + Len(amount_steps)
        recipient_steps ==
            IF screen = "send_contact" /\ "recipient" \in DOMAIN params
            THEN <<[index |-> idx1, action |-> "fill",
                    selector |-> [id |-> "search_recipient",
                                  class |-> "android.widget.EditText"],
                    value |-> params["recipient"],
                    expected_screen |-> screen, timeout_ms |-> TIMEOUT_MS],
                   [index |-> idx1 + 1, action |-> "tap",
                    selector |-> [text |-> params["recipient"]],
                    value |-> "", expected_screen |-> screen, timeout_ms |-> TIMEOUT_MS]>>
            ELSE <<>>
        idx2 == idx1 + Len(recipient_steps)
        pocket_name == remove_all(Get(params, "source", ""), "bolsillo_", 1)
        pocket_steps ==
            IF screen = "pocket_detail" /\ "source" \in DOMAIN params
            THEN <<[index |-> idx2, action |-> "tap",
                    selector |-> [text |-> pocket_name, content_desc |-> pocket_name],
                    value |-> "", expected_screen |-> screen, timeout_ms |-> TIMEOUT_MS]>>
            ELSE <<>>
    IN amount_steps \o recipient_steps \o pocket_steps

\* Planner._build_summary; [raised, summary].  format(amount, ",") raises
\* ValueError when amount is the default "?".
_build_summary(intent) ==
    LET params == intent.params IN
    IF intent.name = "send_money"
    THEN IF "amount" \notin DOMAIN params
         THEN [raised |-> "ValueError", summary |-> ""]
         ELSE [raised |-> "none",
               summary |-> "Enviar $" \o format_thousands(params["amount"]) \o " a " \o
                           Get(params, "recipient", "?") \o " desde " \o
                           Get(params, "source", "cuenta principal")]
    ELSE [raised |-> "none",
          summary |-> IF intent.name = "check_balance" THEN "Consultar saldo"
                      ELSE IF intent.name = "transfer_pocket"
                           THEN "Transferir entre bolsillos"
                      ELSE IF intent.name = "pay_bill"
                           THEN "Pagar servicio: " \o Get(params, "service", "?")
                      ELSE "Ejecutar: " \o intent.name]

\* send_money missing from the list of money-moving intents
_needs_confirmation_without_send(intent) ==
    intent.name \in {"send_money_from_pocket", "pay_bill", "transfer_pocket"}

\* Planner._needs_confirmation
_needs_confirmation(intent) ==
    intent.name \in {"send_money", "send_money_from_pocket", "pay_bill", "transfer_pocket"}

\* the loop one pass short: for j in range(len(path_nodes) - 2)
RECURSIVE nav_steps_one_short(_, _, _, _)
nav_steps_one_short(graph, path_nodes, j, step_index) ==
    IF j > Len(path_nodes) - 2 THEN <<>>
    ELSE <<_build_action_step(graph, step_index, path_nodes[j], path_nodes[j + 1])>> \o
         nav_steps_one_short(graph, path_nodes, j + 1, step_index + 1)

\* step_index += 1 forgotten after a navigation step
RECURSIVE nav_steps_same_index(_, _, _, _)
nav_steps_same_index(graph, path_nodes, j, step_index) ==
    IF j > Len(path_nodes) - 1 THEN <<>>
    ELSE <<_build_action_step(graph, step_index, path_nodes[j], path_nodes[j + 1])>> \o
         nav_steps_same_index(graph, path_nodes, j + 1, step_index)

\* for j in range(len(path_nodes) - 1): the navigation steps of one hop
RECURSIVE nav_steps(_, _, _, _)
nav_steps(graph, path_nodes, j, step_index) ==
    IF j > Len(path_nodes) - 1 THEN <<>>
    ELSE <<_build_action_step(graph, step_index, path_nodes[j], path_nodes[j + 1])>> \o
         nav_steps(graph, path_nodes, j + 1, step_index + 1)

\* The body of "for i in range(len(checkpoints) - 1)" in Planner.plan.  The
\* loop state is h = [steps, cs, hops]: the steps so far, the compiler's state
\* and, per pair of checkpoints, what became of the hop.  hrm_solve_fn is
\* [kind |-> "none"] for None, else the model infer runs with.
plan_hop(graph, checkpoints, i, intent, hrm_solve_fn, h) ==
    LET from_screen == checkpoints[i]
        to_screen == checkpoints[i + 1]
        hop(status, path_nodes, steps) ==
            [status |-> status, path_nodes |-> path_nodes, steps |-> steps]
        extend(cs, status, path_nodes, nav, param_steps) ==
            [steps |-> h.steps \o nav \o param_steps,
             cs |-> cs,
             hops |-> Append(h.hops, hop(status, path_nodes, nav \o param_steps))]
        build(cs, status, path_nodes, nav) ==
            extend(cs, status, path_nodes, nav,
                   _build_param_steps(Len(h.steps) + Len(nav), to_screen, intent))
        navigate(cs, status, path_nodes) ==
            IF path_nodes = <<>>
            THEN [h EXCEPT !.cs = cs, !.hops = Append(@, hop("no_path", <<>>, <<>>))]
            ELSE build(cs, status, path_nodes,
                       nav_steps(graph, path_nodes, 1, Len(h.steps)))
        choose(cs, decoded) ==
            IF decoded /= <<>> THEN navigate(cs, "solver", decoded)
            ELSE navigate(cs, "graph_bfs", _bfs_graph_path(graph, from_screen, to_screen))
        decode(maze_result, solved) ==
            choose(maze_result.cs,
                   IF solved.success /\ solved.path /= <<>>
                   THEN decode_hrm_path(solved.path, maze_result.node_positions,
                                        maze_result.node_order)
                   ELSE <<>>)
        compiled(maze_result) ==
            IF maze_result.raised /= "none"
            THEN [h EXCEPT !.cs = maze_result.cs,
                           !.hops = Append(@, hop("compile_failed", <<>>, <<>>))]
            ELSE decode(maze_result,
                        IF hrm_solve_fn.kind = "none"
                        THEN [path |-> <<>>, success |-> FALSE]
                        ELSE infer(maze_result.grid, maze_result.width,
                                   maze_result.height, hrm_solve_fn))
    IN IF from_screen = to_screen
       THEN [h EXCEPT !.hops = Append(@, hop("same", <<>>, <<>>))]
       ELSE compiled(compile(graph, from_screen, to_screen))

RECURSIVE plan_hops(_, _, _, _, _, _)
plan_hops(graph, checkpoints, i, intent, hrm_solve_fn, h) ==
    IF i > Len(checkpoints) - 1 THEN h
    ELSE LET rest(h1) ==
                 IF Evaluated(h1)
                 THEN plan_hops(graph, checkpoints, i + 1, intent, hrm_solve_fn, h1)
                 ELSE h1
         IN rest(plan_hop(graph, checkpoints, i, intent, hrm_solve_fn, h))

\* Planner.plan.  Returns [raised, plan, cs, hops]: the ExecutionPlan (when
\* nothing raised), the compiler's state afterwards, and the per-hop record.
plan(graph, cs, intent, from_screen, hrm_solve_fn) ==
    LET planned(checkpoints, h, sm) ==
            [raised |-> sm.raised,
             cs |-> h.cs,
             hops |-> h.hops,
             plan |-> [intent |-> intent,
                       steps |-> h.steps,
                       checkpoints |-> checkpoints,
                       summary |-> sm.summary,
                       requires_confirmation |-> _needs_confirmation(intent),
                       estimated_time_ms |-> Len(h.steps) * STEP_COST_MS]]
        resolved(checkpoints) ==
            planned(checkpoints,
                    plan_hops(graph, checkpoints, 1, intent, hrm_solve_fn,
                              [steps |-> <<>>, cs |-> cs, hops |-> <<>>]),
                    _build_summary(intent))
    IN resolved(_resolve_checkpoints(intent, from_screen))

(***************************************************************************)
(* graph_compiler.py: load_graph_from_json.  The JSON graph is             *)
(*   [ids, nodes, edges]: ids the keys of "nodes" in document order, nodes *)
(*   the dict id -> node_data, edges the list of edge_data dicts; absent   *)
(*   keys are absent from the dicts and take the defaults of the code.     *)
(***************************************************************************)
load_graph_from_json(json_data) ==
    LET ids == Get(json_data, "ids", <<>>)
        nodes == Get(json_data, "nodes", EmptyDict)
        edges_data == Get(json_data, "edges", <<>>)
    IN [ids |-> ids,
        nbr |-> [n \in DOMAIN nodes |-> Get(nodes[n], "edges", <<>>)],
        label |-> [n \in DOMAIN nodes |-> Get(nodes[n], "label", n)],
        snapshot |-> [n \in DOMAIN nodes |->
                        Get(Get(nodes[n], "accessibility_snapshot", EmptyDict),
                            "key_elements", <<>>)],
        edges |-> [i \in 1..Len(edges_data) |->
                     [from_node |-> edges_data[i]["from"],
                      to_node |-> edges_data[i]["to"],
                      action |-> Get(edges_data[i], "action", EmptyDict),
                      weight |-> Get(edges_data[i], "weight", 1),
                      bidirectional |-> Get(edges_data[i], "bidirectional", FALSE)]]]

(***************************************************************************)
(* bank_service.py: BankService.  The service state svc is                 *)
(*   [app_graphs, current_screen, active_plans, cs, hrm]                   *)
(* cs is the state of self.compiler, hrm the solver behind self.hrm:       *)
(* [kind |-> "none"] when HRMInterface.loaded is false, else the model     *)
(* HRMModel.infer runs with.  A handler is a coroutine that gives way at   *)
(* each "await self._send(..)".  Its run is [svc, sent, raised, in_flight]:*)
(* the state it has made, the messages it passed to ws.send in order, the  *)
(* exception that ended it ("none" if none did) and the type of the        *)
(* message it waits on ws.send for ("none" when it was just called or is   *)
(* at its end).  _handle_x takes the run from the handler's call to its    *)
(* first send, or to its end when it sends nothing; x_resumed takes it     *)
(* from a send that returned to the next send, or to the handler's end.    *)
(***************************************************************************)
DEFAULT_APP == "com.bancolombia.app"

\* BankService._intent_summary
_intent_summary(intent) ==
    LET params == intent.params IN
    IF intent.name = "send_money"
    THEN IF "amount" \in DOMAIN params
         THEN "Enviar $" \o format_thousands(params["amount"]) \o " a " \o
              Get(params, "recipient", "?")
         ELSE "Enviar a " \o Get(params, "recipient", "?")
    ELSE IF intent.name = "check_balance" THEN "Consultar saldo"
    ELSE IF intent.name = "pay_bill" THEN "Pagar " \o Get(params, "service", "servicio")
    ELSE IF intent.name = "transfer_pocket" THEN "Mover dinero entre bolsillos"
    ELSE intent.name

\* Planner.to_protocol_message, with plan_msg['requestId'] = request_id
to_protocol_message(p, request_id) ==
    [type |-> "execute_plan",
     requestId |-> request_id,
     payload |-> [intent |-> [name |-> p.intent.name, params |-> p.intent.params],
                  summary |-> p.summary,
                  requiresConfirmation |-> p.requires_confirmation,
                  estimatedTimeMs |-> p.estimated_time_ms,
                  checkpoints |-> p.checkpoints,
                  steps |-> [i \in 1..Len(p.steps) |->
                               [index |-> p.steps[i].index,
                                action |-> p.steps[i].action,
                                selector |-> p.steps[i].selector,
                                value |-> p.steps[i].value,
                                expectedScreen |-> p.steps[i].expected_screen,
                                timeoutMs |-> p.steps[i].timeout_ms]]]]

\* the request names the default application, whatever app was asked for
\* the exploration requested without the requestId of the command
explore_request_unnumbered(request_id, app_package, intent) ==
    [type |-> "explore_request",
     requestId |-> "",
     payload |-> [app |-> app_package, depth |-> 4, intent |-> intent.name]]

explore_request_default_app(request_id, app_package, intent) ==
    [type |-> "explore_request",
     requestId |-> request_id,
     payload |-> [app |-> DEFAULT_APP, depth |-> 4, intent |-> intent.name]]

\* the explore_request _handle_voice_command sends when it has no graph
explore_request(request_id, app_package, intent) ==
    [type |-> "explore_request",
     requestId |-> request_id,
     payload |-> [app |-> app_package, depth |-> 4, intent |-> intent.name]]

\* BankService._send: the message is passed to ws.send and the handler waits
\* there for the connection
_send(run, message) ==
    [run EXCEPT !.sent = Append(@, message), !.in_flight = message.type]

\* ws.send returned and the handler goes on
accepted(run) == [run EXCEPT !.in_flight = "none"]

\* the messages of the handler that the connection accepted: all those passed
\* to ws.send but the one still in flight or the one whose send raised
Delivered(o) ==
    IF o.raised = "ConnectionClosed" \/ o.in_flight /= "none"
    THEN SubSeq(o.sent, 1, Len(o.sent) - 1)
    ELSE o.sent

\* msg.get('requestId', f"vc-{int(time.time()*1000)}"); msg.now is the clock
\* in milliseconds when the command is handled
voice_request_id(msg) == Get(msg, "requestId", "vc-" \o ToString(msg.now))

\* BankService._handle_voice_command from its call to the send of
\* intent_confirmed.  msg.intent is what the intent extractor
\* (SLMService.extract_intent, external) returns for the text.
_handle_voice_command(run, msg) ==
    LET request_id == voice_request_id(msg)
        intent == msg.intent
    IN _send(run, [type |-> "intent_confirmed",
                   requestId |-> request_id,
                   payload |-> [intent |-> intent.name,
                                params |-> intent.params,
                                summary |-> _intent_summary(intent),
                                requiresConfirmation |->
                                    intent.name \in {"send_money", "pay_bill",
                                                     "transfer_pocket"}]])

\* BankService._handle_voice_command from a send that returned: after
\* intent_confirmed to the send of explore_request or execute_plan, or to the
\* exception plan() raises; after either of those to its end
voice_command_resumed(run, msg) ==
    LET svc == run.svc
        payload == Get(msg, "payload", EmptyDict)
        app_package == Get(payload, "app", DEFAULT_APP)
        request_id == voice_request_id(msg)
        intent == msg.intent
        planned(res) ==
            IF res.raised /= "none"
            THEN [run EXCEPT !.svc.cs = res.cs,
                             !.raised = res.raised,
                             !.in_flight = "none"]
            ELSE _send([run EXCEPT !.svc.cs = res.cs,
                                   !.svc.active_plans = Put(@, request_id, res.plan)],
                       to_protocol_message(res.plan, request_id))
    IN IF run.in_flight = "intent_confirmed"
       THEN IF app_package \notin DOMAIN svc.app_graphs
            THEN _send(run, explore_request(request_id, app_package, intent))
            ELSE planned(plan(svc.app_graphs[app_package], svc.cs, intent,
                              Get(svc.current_screen, app_package, "home"), svc.hrm))
       ELSE accepted(run)

\* BankService._handle_graph_update, to the send of graph_ack
_handle_graph_update(run, msg) ==
    LET payload == Get(msg, "payload", EmptyDict)
        app_package == Get(payload, "app", "")
        graph_json == Get(payload, "graph", EmptyDict)
        store(graph) ==
            _send([run EXCEPT !.svc.app_graphs = Put(@, app_package, graph)],
                  [type |-> "graph_ack",
                   payload |-> [app |-> app_package,
                                nodes |-> Len(graph.ids),
                                edges |-> Len(graph.edges)]])
    IN IF app_package = "" \/ DOMAIN graph_json = {} THEN run
       ELSE store(load_graph_from_json(graph_json))

\* BankService._handle_ui_state
_handle_ui_state(run, msg) ==
    LET payload == Get(msg, "payload", EmptyDict)
        app_package == Get(payload, "currentApp", "")
        screen_id == Get(payload, "screenFingerprint", "")
    IN IF app_package /= "" /\ screen_id /= ""
       THEN [run EXCEPT !.svc.current_screen = Put(@, app_package, screen_id)]
       ELSE run

\* the plan pending under the requestId is discarded on explore_complete
_handle_explore_complete_discarding(run, msg) ==
    [run EXCEPT !.svc.active_plans =
        [r \in DOMAIN @ \ {Get(msg, "requestId", "")} |-> @[r]]]

\* BankService._handle_explore_complete: it only logs
_handle_explore_complete(run, msg) == run

\* the completion test one step late: step_index >= len(plan.steps)
plan_is_complete_late(step_index, steps) == step_index >= Len(steps)

\* if step_index >= len(plan.steps) - 1
\* every success report completes the plan
plan_is_complete_always(step_index, steps) == TRUE

plan_is_complete(step_index, steps) == step_index >= Len(steps) - 1

\* the comparison inverted: new_screen == expected
unexpected_screen_inverted(new_screen, expected) ==
    new_screen /= "" /\ new_screen = expected

\* if new_screen and new_screen != expected
unexpected_screen(new_screen, expected) == new_screen /= "" /\ new_screen /= expected

\* BankService._handle_action_result from its call to the send of
\* plan_complete or plan_error, or to its end when it sends nothing
_handle_action_result(run, msg) ==
    LET svc == run.svc
        payload == Get(msg, "payload", EmptyDict)
        request_id == Get(msg, "requestId", "")
        step_index == Get(payload, "stepIndex", -1)
        success == Get(payload, "success", FALSE)
        new_screen == Get(payload, "newScreenFingerprint", "")
        error == Get(payload, "error", "")
    IN IF request_id \notin DOMAIN svc.active_plans THEN run
       ELSE
       LET p == svc.active_plans[request_id]
           n == Len(p.steps)
       IN IF success
          THEN LET app == Get(p.intent.params, "app", DEFAULT_APP)
                   run1 == IF new_screen /= ""
                           THEN [run EXCEPT !.svc.current_screen =
                                               Put(@, app, new_screen)]
                           ELSE run
               IN IF plan_is_complete(step_index, p.steps)
                  THEN _send(run1, [type |-> "plan_complete",
                                    requestId |-> request_id,
                                    payload |-> [summary |-> p.summary,
                                                 success |-> TRUE]])
                  ELSE run1
          ELSE \* plan.steps[step_index]: a negative index counts from the end
               IF step_index < n /\ step_index < -n
               THEN [run EXCEPT !.raised = "IndexError"]
               ELSE
               LET expected == IF step_index < n
                               THEN p.steps[IF step_index >= 0 THEN step_index + 1
                                            ELSE n + step_index + 1].expected_screen
                               ELSE ""
               IN IF unexpected_screen(new_screen, expected)
                  THEN _send(run, [type |-> "plan_error",
                                   requestId |-> request_id,
                                   payload |-> [stepIndex |-> step_index,
                                                error |-> error,
                                                action |-> "retry"]])
                  ELSE run

\* the handler without "del self.active_plans[request_id]"
action_result_resumed_keeping_plan(run, msg) == accepted(run)

\* BankService._handle_action_result from a send that returned to its end:
\* after plan_complete the plan is deleted
action_result_resumed(run, msg) ==
    IF run.in_flight = "plan_complete"
    THEN [accepted(run) EXCEPT !.svc.active_plans =
             [r \in DOMAIN @ \ {Get(msg, "requestId", "")} |-> @[r]]]
    ELSE accepted(run)

\* HRMInterface.solve
hrm_solve(interface, flat, width, height) ==
    IF interface.kind = "none" THEN [path |-> <<>>, success |-> FALSE]
    ELSE infer(flat, width, height, interface)

\* BankService._handle_solve, to the send of solution
_handle_solve(run, msg) ==
    LET solution(res) ==
            _send(run, [type |-> "solution",
                        requestId |-> Get(msg, "requestId", "unknown"),
                        path |-> res.path,
                        success |-> res.success,
                        inferenceTimeMs |-> 0])
    IN solution(hrm_solve(run.svc.hrm, Get(msg, "grid", <<>>),
                          Get(msg, "width", 0), Get(msg, "height", 0)))

\* BankService._handle_ping, to the send of pong
_handle_ping(run, msg) == _send(run, [type |-> "pong"])

\* handlers.get(msg_type, self._handle_ping): a message of a type without a
\* handler is answered like a ping
_handle_message_answering_unknown(run, raw) ==
    IF ~raw.json THEN [run EXCEPT !.raised = "JSONDecodeError"]
    ELSE IF "msg" \notin DOMAIN raw THEN [run EXCEPT !.raised = "AttributeError"]
    ELSE LET msg == raw.msg
             msg_type == Get(msg, "type", "")
         IN IF msg_type = "voice_command" THEN _handle_voice_command(run, msg)
            ELSE IF msg_type = "graph_update" THEN _handle_graph_update(run, msg)
            ELSE IF msg_type = "ui_state" THEN _handle_ui_state(run, msg)
            ELSE IF msg_type = "action_result" THEN _handle_action_result(run, msg)
            ELSE IF msg_type = "explore_complete" THEN _handle_explore_complete(run, msg)
            ELSE IF msg_type = "solve" THEN _handle_solve(run, msg)
            ELSE _handle_ping(run, msg)

\* BankService._handle_message from its call to the first send of the
\* handler it dispatches to, or to the handler's end.  raw is
\* [json |-> FALSE] for text that is not JSON, [json |-> TRUE] for JSON text
\* that holds no object (msg.get raises AttributeError), else
\* [json |-> TRUE, msg |-> the parsed object].  Whatever a handler raises is
\* caught here; what it did before stays done.
_handle_message(run, raw) ==
    IF ~raw.json THEN [run EXCEPT !.raised = "JSONDecodeError"]
    ELSE IF "msg" \notin DOMAIN raw THEN [run EXCEPT !.raised = "AttributeError"]
    ELSE LET msg == raw.msg
             msg_type == Get(msg, "type", "")
         IN IF msg_type = "voice_command" THEN _handle_voice_command(run, msg)
            ELSE IF msg_type = "graph_update" THEN _handle_graph_update(run, msg)
            ELSE IF msg_type = "ui_state" THEN _handle_ui_state(run, msg)
            ELSE IF msg_type = "action_result" THEN _handle_action_result(run, msg)
            ELSE IF msg_type = "explore_complete" THEN _handle_explore_complete(run, msg)
            ELSE IF msg_type = "ping" THEN _handle_ping(run, msg)
            ELSE IF msg_type = "solve" THEN _handle_solve(run, msg)
            ELSE run

\* the handler of raw, which waits on a send, when that send returned: to its
\* next send or its end.  The handlers of graph_update, solve and ping end
\* after their one send.
resumed(run, raw) ==
    LET msg_type == raw.msg.type IN
    IF msg_type = "voice_command" THEN voice_command_resumed(run, raw.msg)
    ELSE IF msg_type = "action_result" THEN action_result_resumed(run, raw.msg)
    ELSE accepted(run)

\* ws.send raises websockets.ConnectionClosed: the handler is left at its
\* await and _handle_message catches the exception
connection_closed(run) ==
    [run EXCEPT !.raised = "ConnectionClosed", !.in_flight = "none"]

\* await self._handle_message(raw) on a connection that accepts every send:
\* the handler from its call to its end
RECURSIVE returned(_, _)
returned(run, raw) ==
    IF run.in_flight = "none" THEN run ELSE returned(resumed(run, raw), raw)

awaited(run, raw) == returned(_handle_message(run, raw), raw)

(***************************************************************************)
(* Inputs.  Graphs arrive as JSON and go through load_graph_from_json.     *)
(***************************************************************************)
\* the small graphs compiled have at most MaxSmallNodes nodes
MaxSmallNodes == 3
\* the chain graphs have up to MaxOver nodes more than the field has cells for
MaxOver == 2
\* the grids solved are at most MaxWidth wide and high, with at most
\* MaxCells cells
MaxWidth == 3
MaxCells == 9
\* the service handles at most MaxMessages inbound messages
MaxMessages == 3

\* the number of cells _layout_nodes can give to nodes
Capacity == (GRID_SIZE - 2 * BORDER - 1) * (GRID_SIZE - 2 * BORDER - 1)

Node(edges) == [edges |-> edges]
Labelled(label, edges) == [label |-> label, edges |-> edges]

\* the sample graph of the self-tests (planner.py, graph_compiler.py)
SampleGraphJson ==
    [ids |-> <<"home", "transfers", "pockets", "payments", "qr", "send_contact",
               "send_account", "pocket_detail", "enter_amount", "confirm_send",
               "success", "withdraw_pocket", "pay_bill">>,
     nodes |-> [home |-> Labelled("Inicio", <<"transfers", "pockets", "payments", "qr">>),
                transfers |-> Labelled("Transferencias",
                                       <<"send_contact", "send_account", "home">>),
                pockets |-> Labelled("Bolsillos", <<"pocket_detail", "home">>),
                payments |-> Labelled("Pagos", <<"pay_bill", "home">>),
                qr |-> Labelled("QR", <<"home">>),
                send_contact |-> Labelled("Enviar a Contacto",
                                          <<"enter_amount", "transfers">>),
                send_account |-> Labelled("Enviar a Cuenta",
                                          <<"enter_amount", "transfers">>),
                pocket_detail |-> Labelled("Detalle Bolsillo",
                                           <<"withdraw_pocket", "pockets">>),
                enter_amount |-> Labelled("Ingresar Monto", <<"confirm_send">>),
                confirm_send |-> Labelled("Confirmar Envío", <<"success">>),
                success |-> Labelled("Éxito", <<"home">>),
                withdraw_pocket |-> Labelled("Retirar de Bolsillo", <<"pocket_detail">>),
                pay_bill |-> Labelled("Pagar Servicio", <<"payments">>)],
     edges |-> <<>>]

\* the scenario graph with the screen names of the specification
ScenarioGraphJson ==
    [ids |-> <<"home", "transfers", "send", "confirm">>,
     nodes |-> [home |-> Node(<<"transfers", "pockets">>),
                transfers |-> Node(<<"send", "home">>),
                send |-> Node(<<"confirm">>),
                confirm |-> Node(<<"success">>)],
     edges |-> <<>>]

\* the same scenario with the screen names of INTENT_CHECKPOINTS
TableGraphJson ==
    [ids |-> <<"home", "transfers", "send_contact", "enter_amount", "confirm_send">>,
     nodes |-> [home |-> Node(<<"transfers", "pockets">>),
                transfers |-> Node(<<"send_contact", "home">>),
                send_contact |-> Node(<<"enter_amount">>),
                enter_amount |-> Node(<<"confirm_send">>),
                confirm_send |-> Node(<<"success">>)],
     edges |-> <<>>]

\* explicit edges: one with an action, one bidirectional, one repeated
EdgeGraphJson ==
    [ids |-> <<"home", "payments", "pay_bill">>,
     nodes |-> [home |-> [label |-> "Inicio"],
                payments |-> [label |-> "Pagos", edges |-> <<"home">>,
                              accessibility_snapshot |->
                                  [key_elements |-> <<[id |-> "btn_pay", text |-> "Pagos"]>>]],
                pay_bill |-> [edges |-> <<"payments">>]],
     edges |-> <<[from |-> "home", to |-> "payments", bidirectional |-> TRUE],
                 [from |-> "payments", to |-> "pay_bill",
                  action |-> [type |-> "swipe", selector |-> [id |-> "bill_row"]],
                  weight |-> 2],
                 [from |-> "payments", to |-> "pay_bill"]>>]

\* n nodes "1" .. "n", node i listing i+1 in its own edge list
ChainGraphJson(n) ==
    [ids |-> [i \in 1..n |-> ToString(i)],
     nodes |-> [s \in {ToString(i) : i \in 1..n} |->
                  Node(IF s = ToString(n) THEN <<>>
                       ELSE <<ToString((CHOOSE i \in 1..n : ToString(i) = s) + 1)>>)],
     edges |-> <<>>]

\* every graph on the first n of the names a, b, c, ... whose nodes each list
\* no neighbour, the last name, or the first two names in reverse order, with
\* or without one explicit bidirectional edge from the first to the last node
SmallNames == [i \in 1..26 |-> SubSeq("abcdefghijklmnopqrstuvwxyz", i, i)]
SmallGraphJsons ==
    UNION {
      LET ids == [i \in 1..n |-> SmallNames[i]]
          names == {SmallNames[i] : i \in 1..n}
          lists == {<<>>, <<SmallNames[n]>>, <<"b", "a">>}
      IN {[ids |-> ids, nodes |-> [x \in names |-> Node(own[x])], edges |-> ex] :
            own \in [names -> lists],
            ex \in {<<>>, <<[from |-> "a", to |-> SmallNames[n],
                             bidirectional |-> TRUE]>>}}
      : n \in 1..MaxSmallNodes}

\* three screens of which the second and third are placed on a diagonal:
\* b and c are linked by one bidirectional explicit edge and c lists b
DiagonalGraphJson ==
    [ids |-> <<"a", "b", "c">>,
     nodes |-> [a |-> Node(<<"b", "c">>), b |-> Node(<<>>), c |-> Node(<<"b">>)],
     edges |-> <<[from |-> "b", to |-> "c", bidirectional |-> TRUE]>>]

CompileGraphJsons ==
    SmallGraphJsons \cup {SampleGraphJson, EdgeGraphJson, DiagonalGraphJson}
    \cup {ChainGraphJson(Capacity + k) : k \in 0..MaxOver}

\* the start and target nodes tried on a graph: its first, last but one and
\* last node, and a name no graph has
Endpoints(graph) ==
    LET n == Len(graph.ids) IN
    {graph.ids[1], graph.ids[Max(1, n - 1)], graph.ids[n], "nowhere"}

PlanGraphJsons == {SampleGraphJson, ScenarioGraphJson, TableGraphJson, EdgeGraphJson}

IntentNames == {"send_money", "send_money_from_pocket", "check_balance",
                "transfer_pocket", "pay_bill", "transaction_history",
                "open_app", "unknown"}

\* the params dicts an intent extractor may return
ParamDicts ==
    {EmptyDict,
     [amount |-> 50000],
     [recipient |-> "Maria"],
     [amount |-> 50000, recipient |-> "Maria"],
     [amount |-> 50000, recipient |-> "Maria", source |-> "cuenta_principal"],
     [amount |-> 1000000, recipient |-> "Carlos", source |-> "bolsillo_ahorros"],
     [source |-> "bolsillo_ahorros"],
     [service |-> "luz"]}

Intents == {[name |-> nm, params |-> pr] : nm \in IntentNames, pr \in ParamDicts}

AllScreens == {SampleGraphJson.ids[i] : i \in 1..Len(SampleGraphJson.ids)}
              \cup {"send", "confirm", "elsewhere"}

PlanScreens == {"home", "transfers", "enter_amount", "elsewhere"}

\* HRMInterface after load(): not loaded (the import failed: solve answers
\* [], False and the planner gets no solver), an HRMModel in breadth-first
\* fallback, or an HRMModel with a network loaded
Solvers == {[kind |-> "none"], [kind |-> "bfs"], [kind |-> "paves"]}

\* every grid of the given size with one START, one TARGET and WALL or PATH
\* elsewhere, and the grids that lack a START or a TARGET
OneStartOneTarget(w, h) ==
    {g \in [1..(w * h) -> {WALL, PATH, START, TARGET}] :
        /\ Cardinality({i \in 1..(w * h) : g[i] = START}) = 1
        /\ Cardinality({i \in 1..(w * h) : g[i] = TARGET}) = 1}

Unmarked(w, h) == [1..(w * h) -> {WALL, PATH}]

SolveInputs ==
    UNION {{[grid |-> g, width |-> w, height |-> h] :
              g \in (IF w * h <= MaxCells THEN OneStartOneTarget(w, h) ELSE {}) \cup
                    (IF w * h <= MaxWidth THEN Unmarked(w, h) ELSE {})}
           : w \in 1..MaxWidth, h \in 1..MaxWidth}

\* the largest grid for which every predicted token grid is tried
MaxOutputCells == 4

\* what the neural model may do on a grid: it is not loaded (infer then
\* takes the breadth-first branch), its forward pass raises, or it predicts
\* a token grid of the same size: any grid over the four tokens on a small
\* grid; on a larger one the empty prediction, the input itself, and all
\* PATH; or it predicts one token more or one token less than the grid has
OracleModels(g) ==
    {[kind |-> "bfs"], [kind |-> "raises"]}
    \cup {[kind |-> "output", output_grid |-> o] :
            o \in (IF Len(g.grid) <= MaxOutputCells
                   THEN [1..Len(g.grid) -> {WALL, PATH, START, TARGET}]
                   ELSE {[i \in 1..Len(g.grid) |-> WALL], g.grid,
                         [i \in 1..Len(g.grid) |-> PATH]})
                  \cup {[i \in 1..(Len(g.grid) + 1) |-> PATH],
                        [i \in 1..(Len(g.grid) - 1) |-> PATH]}}

Apps == {DEFAULT_APP, "com.nequi.app"}
RequestIds == {"r1", "vc-1000"}
ServiceGraphJsons == {ScenarioGraphJson, EdgeGraphJson}
ServiceScreens == {"home", "transfers"}
ServiceIntents ==
    {[name |-> "send_money", params |-> [amount |-> 50000, recipient |-> "Maria"]],
     [name |-> "send_money", params |-> [recipient |-> "Maria"]],
     [name |-> "pay_bill", params |-> [service |-> "luz"]],
     [name |-> "unknown", params |-> EmptyDict]}
\* the largest stepIndex an action_result reports
MaxStepIndex == 2
\* the number of messages handled after a plan was stored
MaxReports == 3
(***************************************************************************)
(* The state after construction                                            *)
(***************************************************************************)
CompilerConstructed ==
    /\ grid = EmptyGrid
    /\ node_positions = EmptyDict
    /\ node_order = <<>>
    /\ position_to_node = EmptyDict

ServiceConstructed ==
    /\ app_graphs = EmptyDict
    /\ current_screen = EmptyDict
    /\ active_plans = EmptyDict
    /\ plan_app = EmptyDict
    /\ plan_log = EmptyDict
    /\ handled = 0

compiler_vars == <<grid, node_positions, node_order, position_to_node>>
service_vars == <<app_graphs, current_screen, active_plans, plan_app, plan_log, hrm,
                  handled>>

SetCompiler(cs) ==
    /\ grid' = cs.grid
    /\ node_positions' = cs.node_positions
    /\ node_order' = cs.node_order
    /\ position_to_node' = cs.position_to_node

(***************************************************************************)
(* Spec: the BankService message loop.  _ws_loop awaits _handle_message on *)
(* one message before it reads the next, so messages are handled one at a  *)
(* time, in arrival order.  An action that takes a message runs its        *)
(* handler to the handler's first send, or to its end when it sends        *)
(* nothing; while the handler waits on ws.send no message is taken, and    *)
(* either the send returns (Sent) and the handler runs on to its next send *)
(* or its end, or the connection closes and the send raises (Closed).      *)
(***************************************************************************)
Service == [app_graphs |-> app_graphs, current_screen |-> current_screen,
            active_plans |-> active_plans,
            cs |-> [grid |-> grid, node_positions |-> node_positions,
                    node_order |-> node_order,
                    position_to_node |-> position_to_node],
            hrm |-> hrm]

\* the run of a handler that was just called on the service state svc
Called(svc) == [svc |-> svc, sent |-> <<>>, raised |-> "none", in_flight |-> "none"]

\* the run of the handler that waits on ws.send
Waiting == [svc |-> Service, sent |-> out.sent, raised |-> out.raised,
            in_flight |-> out.in_flight]

\* the positions in the list of sent messages of those of one type
SentOfType(sent, type) == {i \in 1..Len(sent) : sent[i].type = type}

\* the history of the plans after a step of the handler of raw that leaves
\* the run res: a voice_command that stores a plan starts the history of its
\* request id afresh; an action_result adds its step index when it arrives
\* reporting success for a stored plan, and counts the plan_complete passed
\* to ws.send (completes) and those of them that the connection accepted
\* (delivered)
Logged(kind, raw, res) ==
    LET stored == kind = "voice_command" /\ res.in_flight = "execute_plan"
        id == IF kind = "voice_command" THEN voice_request_id(raw.msg)
              ELSE raw.msg.requestId
    IN [r \in DOMAIN plan_log \cup (IF stored THEN {id} ELSE {}) |->
          IF stored /\ r = id
          THEN [succeeded |-> {}, completes |-> 0, delivered |-> 0]
          ELSE IF kind = "action_result" /\ r = id
          THEN [succeeded |->
                   IF /\ out.in_flight = "none"
                      /\ raw.msg.payload.success
                      /\ r \in DOMAIN active_plans
                   THEN plan_log[r].succeeded \cup {raw.msg.payload.stepIndex}
                   ELSE plan_log[r].succeeded,
                completes |-> plan_log[r].completes
                              + (IF res.in_flight = "plan_complete" THEN 1 ELSE 0),
                delivered |-> plan_log[r].delivered
                              + (IF out.in_flight = "plan_complete" THEN 1 ELSE 0)]
          ELSE plan_log[r]]

\* a step of the handler of raw, which leaves the run res: the message is
\* counted when it is taken
Handled(kind, raw, res) ==
    /\ handled' = IF out.in_flight = "none" THEN handled + 1 ELSE handled
    /\ SetCompiler(res.svc.cs)
    /\ app_graphs' = res.svc.app_graphs
    /\ current_screen' = res.svc.current_screen
    /\ active_plans' = res.svc.active_plans
    /\ plan_app' = [r \in DOMAIN res.svc.active_plans |->
                      IF /\ kind = "voice_command"
                         /\ r = voice_request_id(raw.msg)
                         /\ res.in_flight = "execute_plan"
                      THEN raw.msg.payload.app
                      ELSE plan_app[r]]
    /\ plan_log' = Logged(kind, raw, res)
    /\ hrm' = hrm
    /\ pc' = kind
    /\ inp' = raw
    /\ out' = [sent |-> res.sent, raised |-> res.raised, in_flight |-> res.in_flight]

\* the loop reads the next message: no handler is waiting
Takes(kind, raw) ==
    /\ out.in_flight = "none"
    /\ Handled(kind, raw, _handle_message(Called(Service), raw))

Json(msg) == [json |-> TRUE, msg |-> msg]

\* the clock readings, in milliseconds, of the commands that carry no
\* requestId
Clock == {1000, 1005}

\* the commands that carry no requestId: handled under "vc-<milliseconds>"
UnnumberedCommands ==
    {[type |-> "voice_command", payload |-> [text |-> "", app |-> DEFAULT_APP],
      intent |-> [name |-> "pay_bill", params |-> [service |-> "luz"]],
      now |-> now] : now \in Clock}

\* the messages of each type that arrive
VoiceCommands ==
    {[type |-> "voice_command", requestId |-> rid,
      payload |-> [text |-> "", app |-> app], intent |-> intent, now |-> 1000] :
        rid \in {"r1"}, app \in Apps, intent \in ServiceIntents}
    \cup UnnumberedCommands

GraphUpdates ==
    {[type |-> "graph_update", payload |-> [app |-> app, graph |-> g]] :
        app \in Apps \cup {""}, g \in ServiceGraphJsons \cup {EmptyDict}}

UiStates ==
    {[type |-> "ui_state",
      payload |-> [currentApp |-> app, screenFingerprint |-> screen]] :
        app \in Apps \cup {""}, screen \in ServiceScreens \cup {""}}

ActionResults ==
    {[type |-> "action_result", requestId |-> rid,
      payload |-> [stepIndex |-> idx, success |-> success,
                   newScreenFingerprint |-> screen, error |-> error]] :
        rid \in RequestIds, idx \in (-1)..MaxStepIndex,
        success \in BOOLEAN, screen \in ServiceScreens \cup {""},
        error \in {"", "timeout"}}

ExploreCompletes ==
    {[type |-> "explore_complete", requestId |-> rid, payload |-> [app |-> app]] :
        rid \in RequestIds, app \in Apps}

Solves ==
    {[type |-> "solve", requestId |-> "s1", grid |-> g, width |-> 3, height |-> 1] :
        g \in {<<START, PATH, TARGET>>, <<START, WALL, TARGET>>}}

Unhandled == {[json |-> FALSE], [json |-> TRUE], Json([type |-> "bogus"]),
              Json(EmptyDict)}

\* one action per branch of _handle_message's dispatch on the message type
VoiceCommand ==
    \E msg \in VoiceCommands :
        /\ handled < MaxMessages
        /\ Takes("voice_command", Json(msg))

GraphUpdate ==
    \E msg \in GraphUpdates :
        /\ handled < MaxMessages
        /\ Takes("graph_update", Json(msg))

UiState ==
    \E msg \in UiStates :
        /\ handled < MaxMessages
        /\ Takes("ui_state", Json(msg))

ActionResult ==
    \E msg \in ActionResults :
        /\ handled < MaxMessages
        /\ msg.payload.success => msg.payload.error = ""
        /\ Takes("action_result", Json(msg))

ExploreComplete ==
    \E msg \in ExploreCompletes :
        /\ handled < MaxMessages
        /\ Takes("explore_complete", Json(msg))

Ping ==
    /\ handled < MaxMessages
    /\ Takes("ping", Json([type |-> "ping"]))

Solve ==
    \E msg \in Solves :
        /\ handled < MaxMessages
        /\ Takes("solve", Json(msg))

\* text that is not JSON, and messages of a type no branch takes
Dropped ==
    \E raw \in Unhandled :
        /\ handled < MaxMessages
        /\ Takes("dropped", raw)

\* ws.send returns: the handler that waited on it runs on
Sent ==
    /\ out.in_flight /= "none"
    /\ Handled(pc, inp, resumed(Waiting, inp))

\* ws.send raises ConnectionClosed: the handler ends where it waited
Closed ==
    /\ out.in_flight /= "none"
    /\ out' = [sent |-> connection_closed(Waiting).sent,
               raised |-> connection_closed(Waiting).raised,
               in_flight |-> connection_closed(Waiting).in_flight]
    /\ UNCHANGED <<compiler_vars, service_vars, pc, inp>>

Init ==
    /\ CompilerConstructed
    /\ ServiceConstructed
    /\ hrm \in Solvers
    /\ pc = "start"
    /\ inp = EmptyDict
    /\ out = [sent |-> <<>>, raised |-> "none", in_flight |-> "none"]

Next ==
    \/ VoiceCommand
    \/ GraphUpdate
    \/ UiState
    \/ ActionResult
    \/ ExploreComplete
    \/ Ping
    \/ Solve
    \/ Dropped
    \/ Sent
    \/ Closed

Spec == Init /\ [][Next]_vars

(***************************************************************************)
(* SpecExecute: the message loop from the moment a plan is stored: a       *)
(* graph_update and a voice_command were handled after construction on a   *)
(* connection that accepted every send; then action_results and further    *)
(* voice_commands.                                                         *)
(***************************************************************************)
\* the messages handled before the plan is stored
StoredAfter == 2

Constructed(solver) ==
    [app_graphs |-> EmptyDict, current_screen |-> EmptyDict,
     active_plans |-> EmptyDict,
     cs |-> [grid |-> EmptyGrid, node_positions |-> EmptyDict,
             node_order |-> <<>>, position_to_node |-> EmptyDict],
     hrm |-> solver]

PlanStored(solver, update, command, res) ==
    /\ SentOfType(res.sent, "execute_plan") /= {}
    /\ grid = res.svc.cs.grid
    /\ node_positions = res.svc.cs.node_positions
    /\ node_order = res.svc.cs.node_order
    /\ position_to_node = res.svc.cs.position_to_node
    /\ app_graphs = res.svc.app_graphs
    /\ current_screen = res.svc.current_screen
    /\ active_plans = res.svc.active_plans
    /\ plan_app = [r \in {voice_request_id(command)} |-> command.payload.app]
    /\ plan_log = [r \in {voice_request_id(command)} |->
                     [succeeded |-> {}, completes |-> 0, delivered |-> 0]]
    /\ hrm = solver
    /\ handled = StoredAfter
    /\ pc = "voice_command"
    /\ inp = Json(command)
    /\ out = [sent |-> res.sent, raised |-> res.raised, in_flight |-> res.in_flight]

InitExecute ==
    \E solver \in Solvers, update \in GraphUpdates, command \in VoiceCommands :
        /\ PlanStored(solver, update, command,
                      awaited(Called(awaited(Called(Constructed(solver)),
                                             Json(update)).svc),
                              Json(command)))

\* the reports on the steps 0 .. MaxStepIndex, without error text, that name
\* no screen or the screen transfers
Reports ==
    {msg \in ActionResults :
        /\ msg.payload.stepIndex >= 0
        /\ msg.payload.newScreenFingerprint \in {"", "transfers"}
        /\ msg.payload.error = ""}

Report ==
    \E msg \in Reports :
        /\ handled < StoredAfter + MaxReports
        /\ Takes("action_result", Json(msg))

\* the commands that arrive while the plan is executed: those to pay a bill
Recommands == {msg \in VoiceCommands : msg.intent.name = "pay_bill"}

Recommand ==
    \E msg \in Recommands :
        /\ handled < StoredAfter + MaxReports
        /\ Takes("voice_command", Json(msg))

NextExecute == Report \/ Recommand \/ Sent \/ Closed

SpecExecute == InitExecute /\ [][NextExecute]_vars

(***************************************************************************)
(* SpecCompile: one GraphCompiler; compile, then the reference solver on   *)
(* the compiled field, then decode_hrm_path on the solver's path.          *)
(***************************************************************************)
InitCompile ==
    /\ CompilerConstructed
    /\ ServiceConstructed
    /\ hrm = [kind |-> "bfs"]
    /\ pc = "init"
    /\ inp \in {[graph |-> load_graph_from_json(j)] : j \in CompileGraphJsons}
    /\ out = [raised |-> "none"]

Compiled(s, t, res) ==
    /\ SetCompiler(res.cs)
    /\ pc' = "compiled"
    /\ inp' = [graph |-> inp.graph, start_node |-> s, target_node |-> t]
    /\ out' = IF res.raised /= "none"
              THEN [raised |-> res.raised, exhausted |-> res.cs.exhausted]
              ELSE [raised |-> "none", exhausted |-> res.cs.exhausted,
                    grid |-> res.grid, width |-> res.width,
                    height |-> res.height, node_positions |-> res.node_positions,
                    node_order |-> res.node_order,
                    position_to_node |-> res.position_to_node,
                    start_pos |-> res.start_pos, target_pos |-> res.target_pos]

Compile ==
    /\ pc = "init"
    /\ LET cs1 == compile_layout(inp.graph) IN
       \E s \in Endpoints(inp.graph), t \in Endpoints(inp.graph) :
         Compiled(s, t, compile_mark(cs1, s, t))
    /\ UNCHANGED service_vars

SolveCompiled ==
    /\ pc = "compiled"
    /\ out.raised = "none"
    /\ pc' = "solved"
    /\ out' = [raised |-> "none", node_positions |-> out.node_positions,
               node_order |-> out.node_order] @@
              infer(out.grid, out.width, out.height, hrm)
    /\ UNCHANGED <<compiler_vars, service_vars, inp>>

\* cell paths that touch no node cell of any layout: along row 0 of the field
BorderPaths == {<<>>, <<(<<0, 0>>)>>, <<(<<0, 0>>), (<<0, 1>>)>>}

Decode ==
    /\ pc = "solved"
    /\ \E hrm_path \in {out.path} \cup BorderPaths :
         /\ pc' = "decoded"
         /\ out' = [raised |-> "none", hrm_path |-> hrm_path, solved |-> out.success,
                    path |-> out.path,
                    node_sequence |-> decode_hrm_path(hrm_path, out.node_positions,
                                                      out.node_order)]
    /\ UNCHANGED <<compiler_vars, service_vars, inp>>

NextCompile == Compile \/ SolveCompiled \/ Decode

SpecCompile == InitCompile /\ [][NextCompile]_vars

(***************************************************************************)
(* SpecSolve: HRMModel.infer on small grids                                *)
(***************************************************************************)
InitSolve ==
    /\ CompilerConstructed
    /\ ServiceConstructed
    /\ hrm = [kind |-> "bfs"]
    /\ pc = "init"
    /\ inp \in SolveInputs
    /\ out = [path |-> <<>>, success |-> FALSE]

Infer ==
    /\ pc = "init"
    /\ pc' = "inferred"
    /\ out' = infer(inp.grid, inp.width, inp.height, hrm)
    /\ UNCHANGED <<compiler_vars, service_vars, inp>>

NextSolve == Infer

SpecSolve == InitSolve /\ [][NextSolve]_vars

(***************************************************************************)
(* SpecOracle: HRMModel.infer on small grids with a neural model that is   *)
(* not loaded, raises, or predicts some token grid                         *)
(***************************************************************************)
InitOracle ==
    /\ CompilerConstructed
    /\ ServiceConstructed
    /\ pc = "init"
    /\ inp \in SolveInputs
    /\ hrm \in OracleModels(inp)
    /\ out = [path |-> <<>>, success |-> FALSE]

NextOracle == Infer

SpecOracle == InitOracle /\ [][NextOracle]_vars

(***************************************************************************)
(* SpecPlan: one Planner over a graph; _resolve_checkpoints and plan       *)
(***************************************************************************)
InitPlan ==
    /\ CompilerConstructed
    /\ ServiceConstructed
    /\ hrm \in Solvers
    /\ pc = "init"
    /\ inp \in {[graph |-> load_graph_from_json(j)] : j \in PlanGraphJsons}
    /\ out = [raised |-> "none"]

Resolve ==
    /\ pc = "init"
    /\ \E intent \in Intents, screen \in AllScreens :
         /\ pc' = "resolved"
         /\ inp' = [graph |-> inp.graph, intent |-> intent, current_screen |-> screen]
         /\ out' = [raised |-> "none",
                    checkpoints |-> _resolve_checkpoints(intent, screen)]
    /\ UNCHANGED <<compiler_vars, service_vars>>

Planned(intent, screen, res) ==
    /\ SetCompiler(res.cs)
    /\ pc' = "planned"
    /\ inp' = [graph |-> inp.graph, intent |-> intent, current_screen |-> screen]
    /\ out' = IF res.raised /= "none"
              THEN [raised |-> res.raised, checkpoints |-> res.plan.checkpoints,
                    hops |-> res.hops]
              ELSE [raised |-> "none", checkpoints |-> res.plan.checkpoints,
                    hops |-> res.hops, plan |-> res.plan]

Plan ==
    /\ pc = "init"
    /\ \E intent \in Intents, screen \in PlanScreens :
         Planned(intent, screen,
                 plan(inp.graph, [grid |-> grid, node_positions |-> node_positions,
                                  node_order |-> node_order,
                                  position_to_node |-> position_to_node],
                      intent, screen, hrm))
    /\ UNCHANGED service_vars

NextPlan == Resolve \/ Plan

SpecPlan == InitPlan /\ [][NextPlan]_vars

(***************************************************************************)
(* SpecGraph: AppGraph.get_neighbors on graphs that express a transition   *)
(* by explicit edges, bidirectional edges and neighbor lists               *)
(***************************************************************************)
Edge(from, to) == [from |-> from, to |-> to]
Bidirectional(from, to) == [from |-> from, to |-> to, bidirectional |-> TRUE]

NeighborLists == {<<>>, <<"b">>, <<"b", "b">>, <<"c", "a">>}

EdgeLists ==
    {<<>>,
     <<Edge("a", "b")>>,
     <<Edge("a", "b"), Edge("a", "b")>>,
     <<Bidirectional("b", "a")>>,
     <<Edge("a", "b"), Bidirectional("b", "a")>>,
     <<Bidirectional("a", "c"), Edge("a", "b"), Edge("b", "nowhere")>>}

NeighborGraphJsons ==
    {[ids |-> <<"a", "b", "c">>,
      nodes |-> [a |-> Node(la), b |-> Node(lb), c |-> Node(<<>>)],
      edges |-> ex] : la \in NeighborLists, lb \in NeighborLists, ex \in EdgeLists}
    \cup {SampleGraphJson, EdgeGraphJson}

InitGraph ==
    /\ CompilerConstructed
    /\ ServiceConstructed
    /\ hrm = [kind |-> "none"]
    /\ pc = "init"
    /\ inp \in {[graph |-> load_graph_from_json(j)] : j \in NeighborGraphJsons}
    /\ out = [neighbors |-> <<>>]

Neighbors ==
    /\ pc = "init"
    /\ \E node_id \in NodeSet(inp.graph) \cup {"nowhere"} :
         /\ pc' = "neighbors"
         /\ inp' = [graph |-> inp.graph, node_id |-> node_id]
         /\ out' = [neighbors |-> get_neighbors(inp.graph, node_id)]
    /\ UNCHANGED <<compiler_vars, service_vars>>

NextGraph == Neighbors

SpecGraph == InitGraph /\ [][NextGraph]_vars

(***************************************************************************)
(* Properties of the message loop (Spec).  Every step of the handler of a  *)
(* message leaves the message in inp and what the handler has passed to   *)
(* ws.send or raised so far in out; the plans before the step are the     *)
(* unprimed active_plans.  A message is emitted when the connection       *)
(* accepted it: Delivered(out).                                            *)
(***************************************************************************)
\* the handler of the message ends in this step: it returns or raises
Ends == out'.in_flight = "none"

\* a step of the handler of an action_result for a plan stored under its
\* requestId; the plan stays stored until the handler's last step
ReportsOnPlan ==
    /\ pc' = "action_result"
    /\ inp'.msg.requestId \in DOMAIN active_plans

\* ... reporting success for the final step index of that plan
ReportsFinalSuccess ==
    /\ ReportsOnPlan
    /\ inp'.msg.payload.success
    /\ inp'.msg.payload.stepIndex = Len(active_plans[inp'.msg.requestId].steps) - 1

\* ... reporting failure for a step of that plan, with a newScreenFingerprint
\* that differs from the step's expected screen
ReportsFailureElsewhere ==
    /\ ReportsOnPlan
    /\ ~inp'.msg.payload.success
    /\ inp'.msg.payload.stepIndex \in
           0..(Len(active_plans[inp'.msg.requestId].steps) - 1)
    /\ inp'.msg.payload.newScreenFingerprint /=
           active_plans[inp'.msg.requestId].steps[inp'.msg.payload.stepIndex + 1]
               .expected_screen

\* C1: a successful action_result for the final step index of a plan stored
\* under its requestId removes the plan from active_plans, and exactly one
\* plan_complete, with success = true and that requestId, is emitted for it.
C1_FinalSuccessCompletes ==
    [][(ReportsFinalSuccess /\ Ends) =>
         /\ inp'.msg.requestId \notin DOMAIN active_plans'
         /\ DOMAIN active_plans' = DOMAIN active_plans \ {inp'.msg.requestId}
         /\ Cardinality(SentOfType(Delivered(out'), "plan_complete")) = 1
         /\ \A i \in SentOfType(Delivered(out'), "plan_complete") :
               /\ out'.sent[i].payload.success = TRUE
               /\ out'.sent[i].requestId = inp'.msg.requestId]_vars

\* what the handler does with that report: it passes one plan_complete to
\* the connection and keeps the plan while it waits for the send; it removes
\* the plan when the send returns, and when the send raises ConnectionClosed
\* the plan stays
C1_CompletesWhenDelivered ==
    [][ReportsFinalSuccess =>
         /\ Len(out'.sent) = 1
         /\ out'.sent[1].type = "plan_complete"
         /\ out'.sent[1].payload.success = TRUE
         /\ out'.sent[1].requestId = inp'.msg.requestId
         /\ out'.raised \in {"none", "ConnectionClosed"}
         /\ (Ends /\ out'.raised = "none") =>
               DOMAIN active_plans' = DOMAIN active_plans \ {inp'.msg.requestId}
         /\ (~Ends \/ out'.raised = "ConnectionClosed") =>
               active_plans' = active_plans]_vars

\* three messages were handled: a graph_update storing the graph of three
\* screens, the voice_command whose pay_bill plan has two steps on it, and
\* the successful report on step 1 that completed the plan
C1_Witness ==
    /\ pc = "action_result"
    /\ handled = 3
    /\ DOMAIN app_graphs = {DEFAULT_APP}
    /\ app_graphs[DEFAULT_APP].ids = EdgeGraphJson.ids
    /\ inp.msg.payload.success
    /\ inp.msg.payload.stepIndex = 1
    /\ inp.msg.requestId \notin DOMAIN active_plans
    /\ out.raised = "none"
    /\ out.in_flight = "none"
    /\ Len(out.sent) = 1
    /\ out.sent[1].type = "plan_complete"
    /\ out.sent[1].payload.success
    /\ out.sent[1].payload.summary = "Pagar servicio: luz"

\* the connection closed while plan_complete was sent for the successful
\* report on the last step: the plan of two steps is still stored
C1_PlanKept ==
    /\ pc = "action_result"
    /\ handled = 3
    /\ inp.msg.payload.success
    /\ inp.msg.payload.stepIndex = 1
    /\ out.raised = "ConnectionClosed"
    /\ Len(out.sent) = 1
    /\ out.sent[1].type = "plan_complete"
    /\ inp.msg.requestId \in DOMAIN active_plans
    /\ Len(active_plans[inp.msg.requestId].steps) = 2

\* C2 as stated: a failed action_result for a step of an active plan whose
\* newScreenFingerprint differs from the step's expected screen emits
\* exactly one plan_error and leaves the plan in active_plans.
C2_AnyDifferingScreen ==
    [][(ReportsFailureElsewhere /\ Ends) =>
         /\ Cardinality(SentOfType(Delivered(out'), "plan_error")) = 1
         /\ inp'.msg.requestId \in DOMAIN active_plans']_vars

\* C2, amended: a failed action_result for a step of an active plan whose
\* newScreenFingerprint is not empty and differs from the step's expected
\* screen passes exactly one plan_error, for that requestId and step, to
\* the connection, which emits it unless it closes during that send, and
\* leaves active_plans as it was.
C2_ReportedDifferingScreen ==
    [][(ReportsFailureElsewhere /\ inp'.msg.payload.newScreenFingerprint /= "") =>
         /\ Cardinality(SentOfType(out'.sent, "plan_error")) = 1
         /\ \A i \in SentOfType(out'.sent, "plan_error") :
               /\ out'.sent[i].requestId = inp'.msg.requestId
               /\ out'.sent[i].payload.stepIndex = inp'.msg.payload.stepIndex
         /\ out'.raised \in {"none", "ConnectionClosed"}
         /\ (Ends /\ out'.raised = "none") => Delivered(out') = out'.sent
         /\ active_plans' = active_plans]_vars

\* a failure on step 1 of a stored plan of two steps, seen on another screen
C2_Witness ==
    /\ pc = "action_result"
    /\ ~inp.msg.payload.success
    /\ inp.msg.payload.stepIndex = 1
    /\ inp.msg.payload.newScreenFingerprint = "home"
    /\ inp.msg.requestId \in DOMAIN active_plans
    /\ Len(active_plans[inp.msg.requestId].steps) = 2
    /\ active_plans[inp.msg.requestId].steps[2].expected_screen /= "home"
    /\ out.raised = "none"
    /\ out.in_flight = "none"
    /\ Len(out.sent) = 1
    /\ out.sent[1].type = "plan_error"

(***************************************************************************)
(* Properties of compile and decode_hrm_path (SpecCompile).  After         *)
(* Compile, inp holds the graph and the start and target node, out what    *)
(* compile returned or raised, and the compiler's fields are its state.    *)
(***************************************************************************)
CellsOf(flat, token) == {i \in 1..Len(flat) : flat[i] = token}

Positions(np) == {np[n] : n \in DOMAIN np}

\* C3: when the start node and the target node both received a grid
\* position, the grid compile returns has exactly one START cell and
\* exactly one TARGET cell.
C3_OneStartOneTarget ==
    (/\ pc = "compiled"
     /\ inp.start_node \in DOMAIN node_positions
     /\ inp.target_node \in DOMAIN node_positions)
    => /\ out.raised = "none"
       /\ Cardinality(CellsOf(out.grid, START)) = 1
       /\ Cardinality(CellsOf(out.grid, TARGET)) = 1

\* C5: a cell path the solver produced on the compiled field decodes to a
\* node sequence without equal neighbours that begins with the start node
\* and ends with the target node; a cell path that touches no node cell
\* decodes to the empty sequence.
C5_DecodedEndpoints ==
    pc = "decoded" =>
      /\ (out.solved /\ out.hrm_path = out.path) =>
            /\ out.node_sequence /= <<>>
            /\ \A i \in 1..(Len(out.node_sequence) - 1) :
                  out.node_sequence[i] /= out.node_sequence[i + 1]
            /\ out.node_sequence[1] = inp.start_node
            /\ out.node_sequence[Len(out.node_sequence)] = inp.target_node
      /\ (\A i \in 1..Len(out.hrm_path) : out.hrm_path[i] \notin Positions(node_positions))
            => out.node_sequence = <<>>

\* C6: after compile no two node identifiers of node_positions share a
\* grid cell (the nodes have as many positions as there are nodes), and
\* position_to_node is its exact inverse, with as many entries.
C6_PositionsInjective ==
    pc = "compiled" =>
      /\ Cardinality(Positions(node_positions)) = Cardinality(DOMAIN node_positions)
      /\ DOMAIN position_to_node = Positions(node_positions)
      /\ \A a \in DOMAIN node_positions : position_to_node[node_positions[a]] = a
      /\ Cardinality(DOMAIN position_to_node) = Cardinality(DOMAIN node_positions)

\* C7: a node whose probing found no free cell has no entry in
\* node_positions and no cell of the grid, and compile with it as start or
\* target raises the node-not-found error.
C7_ExhaustedNodeDropped ==
    pc = "compiled" =>
      \A node \in out.exhausted :
          /\ node \notin DOMAIN node_positions
          /\ \A pos \in DOMAIN position_to_node : position_to_node[pos] /= node
          /\ inp.start_node = node => out.raised = "start_not_found"
          /\ (inp.target_node = node /\ inp.start_node \in DOMAIN node_positions)
                => out.raised = "target_not_found"

(***************************************************************************)
(* Properties of the reference solver (SpecSolve).  inp is the grid given  *)
(* to infer, out the pair (path, success) it returned.                     *)
(***************************************************************************)
\* the cell (r, c) of the i-th token of a flat grid
CellAt(i, width) == <<(i - 1) \div width, (i - 1) % width>>

OpenCells(g) == {CellAt(i, g.width) : i \in {j \in 1..Len(g.grid) : g.grid[j] /= WALL}}

Adjacent(p, q) ==
    \/ p[1] = q[1] /\ (p[2] = q[2] + 1 \/ q[2] = p[2] + 1)
    \/ p[2] = q[2] /\ (p[1] = q[1] + 1 \/ q[1] = p[1] + 1)

\* the open cells reachable from the cells of S in at most k moves
RECURSIVE ReachedWithin(_, _, _)
ReachedWithin(S, open, k) ==
    IF k = 0 THEN S
    ELSE ReachedWithin(S \cup {q \in open : \E p \in S : Adjacent(p, q)}, open, k - 1)

TargetReachable(g) ==
    \E s \in CellsOf(g.grid, START), t \in CellsOf(g.grid, TARGET) :
        CellAt(t, g.width) \in
            ReachedWithin({CellAt(s, g.width)}, OpenCells(g), Len(g.grid))

OneOfEach(g) ==
    /\ Cardinality(CellsOf(g.grid, START)) = 1
    /\ Cardinality(CellsOf(g.grid, TARGET)) = 1

\* C4: on a grid with one START and one TARGET cell the breadth-first
\* solver returns a non-empty path exactly when TARGET can be reached from
\* START by moves up, down, left and right over non-WALL cells of the grid,
\* and then success is true; otherwise the path is empty and success false.
C4_PathIffReachable ==
    (pc = "inferred" /\ OneOfEach(inp)) =>
       /\ (out.path /= <<>>) <=> TargetReachable(inp)
       /\ out.success <=> TargetReachable(inp)
       /\ ~TargetReachable(inp) => (out.path = <<>> /\ out.success = FALSE)

\* a 3 x 3 grid whose TARGET is found around a WALL, five cells away
C4_Witness ==
    /\ pc = "inferred"
    /\ OneOfEach(inp)
    /\ inp.width = 3 /\ inp.height = 3
    /\ WALL \in {inp.grid[i] : i \in 1..Len(inp.grid)}
    /\ out.success
    /\ Len(out.path) = 5
    /\ inp.grid[out.path[1][1] * inp.width + out.path[1][2] + 1] = START
    /\ inp.grid[out.path[5][1] * inp.width + out.path[5][2] + 1] = TARGET

(***************************************************************************)
(* Properties of the planner (SpecPlan).  After Resolve, out.checkpoints   *)
(* is what _resolve_checkpoints returned for inp.intent on                 *)
(* inp.current_screen; after Plan, out.plan is the plan.                   *)
(***************************************************************************)
\* the key _resolve_checkpoints looks up in the table
TableKey(intent) ==
    IF intent.name = "send_money" /\ "source" \in DOMAIN intent.params
       /\ startswith(intent.params["source"], "bolsillo")
    THEN "send_money_from_pocket" ELSE intent.name

HasTableEntry(intent) == TableKey(intent) \in DOMAIN INTENT_CHECKPOINTS

Occurrences(seq, x) == Cardinality({i \in 1..Len(seq) : seq[i] = x})

\* C8: for an intent with a table entry the resolved checkpoints start with
\* the current screen and hold no identifier twice except "home", and the
\* deduplication step applied to them again returns them unchanged.
C8_ResolvedDeduplicated ==
    (pc = "resolved" /\ HasTableEntry(inp.intent)) =>
       /\ out.checkpoints /= <<>>
       /\ out.checkpoints[1] = inp.current_screen
       /\ \A i \in 1..Len(out.checkpoints) :
             out.checkpoints[i] /= "home"
                => Occurrences(out.checkpoints, out.checkpoints[i]) = 1
       /\ dedup(out.checkpoints) = out.checkpoints

\* send_money_from_pocket resolved on transfers: the current screen was
\* prepended, the second transfers of the table dropped, both home kept
C8_Witness ==
    /\ pc = "resolved"
    /\ inp.intent.name = "send_money_from_pocket"
    /\ inp.current_screen = "transfers"
    /\ out.checkpoints[1] = "transfers"
    /\ Occurrences(out.checkpoints, "home") = 2
    /\ Len(out.checkpoints) = Len(INTENT_CHECKPOINTS["send_money_from_pocket"])

\* C9: for an intent name without a table entry the resolved checkpoints
\* are the current screen alone, and the plan built for it has no step.
C9_UnknownIntentSingleton ==
    /\ (pc = "resolved" /\ ~HasTableEntry(inp.intent))
          => out.checkpoints = <<inp.current_screen>>
    /\ (pc = "planned" /\ ~HasTableEntry(inp.intent))
          => /\ out.raised = "none"
             /\ out.plan.checkpoints = <<inp.current_screen>>
             /\ out.plan.steps = <<>>

\* a plan was built for the intent open_app, with parameters, on transfers
C9_Witness ==
    /\ pc = "planned"
    /\ inp.intent.name = "open_app"
    /\ inp.intent.params /= EmptyDict
    /\ inp.current_screen = "transfers"
    /\ out.raised = "none"
    /\ out.plan.checkpoints = <<"transfers">>
    /\ Len(out.plan.steps) = 0

\* the plan is for send_money with amount 50000 and a recipient, from home
SendsFiftyThousand ==
    /\ pc = "planned"
    /\ inp.intent.name = "send_money"
    /\ "recipient" \in DOMAIN inp.intent.params
    /\ "amount" \in DOMAIN inp.intent.params
    /\ inp.intent.params["amount"] = 50000
    /\ inp.current_screen = "home"

\* a fill step with value "50000" comes before the plan's step to screen
FillsBefore(steps, screen) ==
    \E j \in 1..Len(steps) :
        /\ steps[j].expected_screen = screen
        /\ \E i \in 1..(j - 1) : steps[i].action = "fill" /\ steps[i].value = "50000"

\* C10 as stated: on the graph home -> [transfers, pockets], transfers ->
\* [send, home], send -> [confirm], confirm -> [success], the plan for
\* send_money with amount 50000 and a recipient from home has the checkpoints
\* [home, transfers, send, confirm, success], requires confirmation, and
\* fills in "50000" before its step to confirm.
C10_ScenarioAsStated ==
    (SendsFiftyThousand /\ inp.graph = load_graph_from_json(ScenarioGraphJson)) =>
       /\ out.raised = "none"
       /\ out.plan.checkpoints = <<"home", "transfers", "send", "confirm", "success">>
       /\ out.plan.requires_confirmation
       /\ FillsBefore(out.plan.steps, "confirm")

\* C10, amended: on the graph home -> [transfers, pockets], transfers ->
\* [send_contact, home], send_contact -> [enter_amount], enter_amount ->
\* [confirm_send], confirm_send -> [success], that plan has the checkpoints
\* [home, transfers, send_contact, enter_amount, confirm_send, success] (five
\* hops), requires confirmation, and fills in "50000" before its step to
\* confirm_send.
C10_ScenarioWithTableNames ==
    (SendsFiftyThousand /\ inp.graph = load_graph_from_json(TableGraphJson)) =>
       /\ out.raised = "none"
       /\ out.plan.checkpoints = INTENT_CHECKPOINTS["send_money"]
       /\ out.plan.checkpoints = <<"home", "transfers", "send_contact", "enter_amount",
                                   "confirm_send", "success">>
       /\ out.plan.requires_confirmation
       /\ FillsBefore(out.plan.steps, "confirm_send")

\* that plan on that graph, found with the cell solver: nine steps, the
\* eighth filling in the amount, the ninth the tap that opens confirm_send
C10_Witness ==
    /\ SendsFiftyThousand
    /\ inp.graph = load_graph_from_json(TableGraphJson)
    /\ hrm.kind = "bfs"
    /\ out.raised = "none"
    /\ Len(out.plan.steps) = 9
    /\ out.plan.steps[8].action = "fill"
    /\ out.plan.steps[8].value = "50000"
    /\ out.plan.steps[9].expected_screen = "confirm_send"
    /\ out.plan.requires_confirmation

(***************************************************************************)
(* Properties of the hops of Planner.plan (SpecPlan).  After Plan, out     *)
(* holds the checkpoints and, per pair of consecutive checkpoints, the hop *)
(* record [status, path_nodes, steps] of that pass of the loop, whether    *)
(* plan returned or raised; the plan when it returned.                     *)
(***************************************************************************)
\* the identifiers one transition away from n: by an explicit edge from n,
\* a bidirectional edge to n, or n's own edge list
Transitions(graph, n) ==
    {graph.edges[i].to_node :
        i \in {j \in 1..Len(graph.edges) : graph.edges[j].from_node = n}}
    \cup {graph.edges[i].from_node :
            i \in {j \in 1..Len(graph.edges) :
                     graph.edges[j].bidirectional /\ graph.edges[j].to_node = n}}
    \cup (IF n \in DOMAIN graph.nbr
          THEN {graph.nbr[n][i] : i \in 1..Len(graph.nbr[n])} ELSE {})

\* those of them that are nodes of the graph
Successors(graph, n) == Transitions(graph, n) \cap NodeSet(graph)

\* the nodes at most k transitions away from the nodes of S
RECURSIVE Within(_, _, _)
Within(graph, S, k) ==
    IF k = 0 THEN S
    ELSE Within(graph, S \cup UNION {Successors(graph, n) : n \in S}, k - 1)

Reachable(graph, a, b) == b \in Within(graph, {a}, Len(graph.ids))

\* the number of edges of a shortest directed path from a to b
Distance(graph, a, b) ==
    CHOOSE k \in 0..Len(graph.ids) :
        /\ b \in Within(graph, {a}, k)
        /\ k = 0 \/ b \notin Within(graph, {a}, k - 1)

IsWalk(graph, path) ==
    \A j \in 1..(Len(path) - 1) : path[j + 1] \in Successors(graph, path[j])

\* hop i of the plan links two different checkpoints that are both in the graph
HopInGraph(i) ==
    /\ out.checkpoints[i] \in NodeSet(inp.graph)
    /\ out.checkpoints[i + 1] \in NodeSet(inp.graph)
    /\ out.checkpoints[i] /= out.checkpoints[i + 1]

\* the hop was planned from a shortest directed path of the graph: one
\* navigation step per edge of it, then the parameter steps of its end
PlannedFromShortestPath(hop, a, b) ==
    /\ hop.status = "graph_bfs"
    /\ hop.path_nodes[1] = a
    /\ hop.path_nodes[Len(hop.path_nodes)] = b
    /\ IsWalk(inp.graph, hop.path_nodes)
    /\ Len(hop.path_nodes) = Distance(inp.graph, a, b) + 1
    /\ Len(hop.steps) = Len(hop.path_nodes) - 1
                        + Len(_build_param_steps(0, b, inp.intent))
    /\ \A j \in 1..(Len(hop.path_nodes) - 1) :
          /\ hop.steps[j].expected_screen = hop.path_nodes[j + 1]
          /\ hop.steps[j].action /= "fill"

\* C11: when no solver is supplied, or the solver gave no usable path, a hop
\* between two checkpoints of the graph is planned from the breadth-first
\* path over the graph: if a directed path exists the hop has one navigation
\* step per edge of a shortest one, otherwise it has no step; and pay_bill
\* from home ([home, payments, pay_bill]) on a graph with the edges
\* home -> payments -> pay_bill has exactly two hops, each with steps.
C11_HopsFromGraphPath ==
    pc = "planned" =>
       /\ Len(out.hops) = Len(out.checkpoints) - 1
       /\ \A i \in 1..Len(out.hops) :
             (HopInGraph(i) /\ (hrm.kind = "none" \/ out.hops[i].status /= "solver")) =>
                IF Reachable(inp.graph, out.checkpoints[i], out.checkpoints[i + 1])
                THEN PlannedFromShortestPath(out.hops[i], out.checkpoints[i],
                                             out.checkpoints[i + 1])
                ELSE out.hops[i].status = "no_path" /\ out.hops[i].steps = <<>>
       /\ (/\ hrm.kind = "none"
           /\ out.checkpoints = <<"home", "payments", "pay_bill">>
           /\ "payments" \in Successors(inp.graph, "home")
           /\ "pay_bill" \in Successors(inp.graph, "payments"))
          => /\ out.raised = "none"
             /\ Len(out.hops) = 2
             /\ out.hops[1].steps /= <<>>
             /\ out.hops[2].steps /= <<>>
             /\ out.plan.steps = out.hops[1].steps \o out.hops[2].steps

\* pay_bill planned from home without a solver on the graph of three screens
\* with explicit edges: two hops found by the search over the graph, a step each
C11_Witness ==
    /\ pc = "planned"
    /\ out.raised = "none"
    /\ hrm.kind = "none"
    /\ inp.graph = load_graph_from_json(EdgeGraphJson)
    /\ out.plan.checkpoints = <<"home", "payments", "pay_bill">>
    /\ Len(out.hops) = 2
    /\ out.hops[1].status = "graph_bfs"
    /\ out.hops[1].path_nodes = <<"home", "payments">>
    /\ out.hops[2].path_nodes = <<"payments", "pay_bill">>
    /\ Len(out.hops[1].steps) = 1
    /\ Len(out.hops[2].steps) = 1
    /\ Len(out.plan.steps) = 2

(***************************************************************************)
(* Further properties of the message loop (Spec)                           *)
(***************************************************************************)
\* a step of the handler of a voice_command
HandlesVoiceCommand == pc' = "voice_command"

\* ... reporting success for a step index before the plan's last
ReportsEarlierSuccess ==
    /\ ReportsOnPlan
    /\ inp'.msg.payload.success
    /\ inp'.msg.payload.stepIndex < Len(active_plans[inp'.msg.requestId].steps) - 1

\* C12: a successful action_result for a step index that is not the plan's
\* last sets the current screen of the application named in the
\* voice_command that created the plan to the reported newScreenFingerprint,
\* and the plan stays in active_plans.
C12_OwnerScreenUpdated ==
    [][ReportsEarlierSuccess =>
         /\ inp'.msg.requestId \in DOMAIN active_plans'
         /\ plan_app[inp'.msg.requestId] \in DOMAIN current_screen'
         /\ current_screen'[plan_app[inp'.msg.requestId]]
               = inp'.msg.payload.newScreenFingerprint]_vars

\* C13: every plan_error sent for a failed action_result carries the
\* reported screen, the step index and the error text of that action_result.
C13_ErrorCarriesScreen ==
    [][pc' = "action_result" =>
         \A i \in SentOfType(out'.sent, "plan_error") :
            /\ out'.sent[i].payload.stepIndex = inp'.msg.payload.stepIndex
            /\ out'.sent[i].payload.error = inp'.msg.payload.error
            /\ \E f \in DOMAIN out'.sent[i].payload \ {"stepIndex"} :
                  out'.sent[i].payload[f] = inp'.msg.payload.newScreenFingerprint]_vars

\* C14: a voice_command for an application without a stored graph, handled
\* on a connection that stays open, produces after its intent_confirmed
\* exactly one explore_request, for that application and with its request
\* id, and raises nothing; no step of its handler, whether or not the
\* connection stays open, passes an execute_plan or an error message to the
\* connection or changes app_graphs, current_screen or active_plans.
C14_NoGraphRequestsExplore ==
    [][(HandlesVoiceCommand /\ inp'.msg.payload.app \notin DOMAIN app_graphs) =>
         /\ (Ends /\ out'.raised /= "ConnectionClosed") =>
               /\ out'.raised = "none"
               /\ Delivered(out') = out'.sent
               /\ Len(out'.sent) = 2
               /\ out'.sent[2].type = "explore_request"
               /\ out'.sent[2].payload.app = inp'.msg.payload.app
               /\ out'.sent[2].requestId = voice_request_id(inp'.msg)
         /\ out'.sent /= <<>>
         /\ out'.sent[1].type = "intent_confirmed"
         /\ \A i \in 2..Len(out'.sent) : out'.sent[i].type = "explore_request"
         /\ app_graphs' = app_graphs
         /\ current_screen' = current_screen
         /\ active_plans' = active_plans]_vars

\* the graph of the default application is stored, the command was for the
\* other application: the explore_request names the other application
C14_Witness ==
    /\ pc = "voice_command"
    /\ DOMAIN app_graphs = {DEFAULT_APP}
    /\ inp.msg.payload.app = "com.nequi.app"
    /\ inp.msg.intent.name = "pay_bill"
    /\ out.raised = "none"
    /\ out.in_flight = "none"
    /\ Len(out.sent) = 2
    /\ out.sent[2].type = "explore_request"
    /\ out.sent[2].payload.app = "com.nequi.app"
    /\ out.sent[2].requestId = inp.msg.requestId
    /\ active_plans = EmptyDict

\* C15: a voice_command that could not be planned because its application
\* has no graph is kept in live state under its requestId, where the
\* explore_complete with that requestId looks for it (active_plans).
C15_PendingRequestKept ==
    [][(/\ HandlesVoiceCommand
        /\ inp'.msg.payload.app \notin DOMAIN app_graphs
        /\ Ends) =>
         voice_request_id(inp'.msg) \in DOMAIN active_plans']_vars

\* C16: every voice_command for an application whose graph is stored,
\* handled on a connection that stays open, sends exactly one execute_plan,
\* with its request id, and stores the plan sent under that request id in
\* active_plans.
C16_StoredGraphYieldsPlan ==
    [][(/\ HandlesVoiceCommand
        /\ inp'.msg.payload.app \in DOMAIN app_graphs
        /\ Ends
        /\ out'.raised /= "ConnectionClosed") =>
         /\ Cardinality(SentOfType(out'.sent, "execute_plan")) = 1
         /\ \A i \in SentOfType(out'.sent, "execute_plan") :
               /\ out'.sent[i].requestId = voice_request_id(inp'.msg)
               /\ voice_request_id(inp'.msg) \in DOMAIN active_plans'
               /\ out'.sent[i] =
                     to_protocol_message(active_plans'[voice_request_id(inp'.msg)],
                                         voice_request_id(inp'.msg))]_vars

\* the loop takes a next message: a graph_update, a ui_state, an
\* action_result, an explore_complete, a ping, or one it drops
TakesNextMessage ==
    /\ ENABLED GraphUpdate
    /\ ENABLED UiState
    /\ ENABLED ActionResult
    /\ ENABLED ExploreComplete
    /\ ENABLED Ping
    /\ ENABLED Dropped

\* C17: after a message that is invalid JSON, has no handler or made its
\* handler raise, the loop still takes the next message; and a
\* message that is invalid JSON or has no handler sends nothing and leaves
\* app_graphs, current_screen and active_plans as they were.
C17_LoopKeepsHandling ==
    /\ []((handled < MaxMessages /\ (pc = "dropped" \/ out.raised /= "none"))
             => TakesNextMessage)
    /\ [][(handled' = handled + 1 /\ pc' = "dropped") =>
             /\ out'.sent = <<>>
             /\ app_graphs' = app_graphs
             /\ current_screen' = current_screen
             /\ active_plans' = active_plans]_vars

\* the second message made its handler raise (the summary of send_money
\* without an amount), after a graph_update; the loop takes a third
C17_Witness ==
    /\ pc = "voice_command"
    /\ handled = 2
    /\ handled < MaxMessages
    /\ out.raised = "ValueError"
    /\ Len(out.sent) = 1
    /\ active_plans = EmptyDict
    /\ TakesNextMessage

\* the step removes the plan of the action_result's requestId, and only it
RemovesReportedPlan ==
    /\ pc' = "action_result"
    /\ inp'.msg.requestId \in DOMAIN active_plans
    /\ inp'.msg.payload.success
    /\ active_plans' = [r \in DOMAIN active_plans \ {inp'.msg.requestId} |->
                          active_plans[r]]

\* the step stores a plan under the voice_command's requestId, and only there
StoresCommandedPlan ==
    /\ pc' = "voice_command"
    /\ DOMAIN active_plans' = DOMAIN active_plans \cup {voice_request_id(inp'.msg)}
    /\ \A r \in DOMAIN active_plans \ {voice_request_id(inp'.msg)} :
          active_plans'[r] = active_plans[r]

\* C19 as stated: active_plans changes only when a successful action_result
\* for the final step of a plan removes that plan, or a voice_command stores
\* a plan under its requestId.
C19_OnlyFinalStepRemoves ==
    [][active_plans' /= active_plans =>
         \/ /\ RemovesReportedPlan
            /\ inp'.msg.payload.stepIndex
                  = Len(active_plans[inp'.msg.requestId].steps) - 1
         \/ StoresCommandedPlan]_vars

\* C19, amended: active_plans changes only when a successful action_result
\* with a step index at or past the last of a plan (stepIndex >=
\* len(steps) - 1) removes that plan, or a voice_command stores a plan under
\* its requestId.
C19_OnlyCompletionRemoves ==
    [][active_plans' /= active_plans =>
         \/ /\ RemovesReportedPlan
            /\ inp'.msg.payload.stepIndex
                  >= Len(active_plans[inp'.msg.requestId].steps) - 1
         \/ StoresCommandedPlan]_vars

\* the plan of two steps was removed by a successful report on step index 2
C19_Witness ==
    /\ pc = "action_result"
    /\ handled = 3
    /\ inp.msg.payload.success
    /\ inp.msg.payload.stepIndex = 2
    /\ active_plans = EmptyDict
    /\ out.raised = "none"
    /\ out.in_flight = "none"
    /\ Len(out.sent) = 1
    /\ out.sent[1].type = "plan_complete"
    /\ out.sent[1].payload.summary = "Pagar servicio: luz"

(***************************************************************************)
(* Properties of get_neighbors (SpecGraph).  After Neighbors, inp holds    *)
(* the graph and the node asked for, out the list returned.                *)
(***************************************************************************)
\* C18: get_neighbors(n) returns every identifier one transition away from
\* n (by an explicit edge from n, a bidirectional edge to n, or n's own
\* neighbor list), nothing else, and each of them once.
C18_NeighborsOnce ==
    pc = "neighbors" =>
       /\ {out.neighbors[i] : i \in 1..Len(out.neighbors)}
             = Transitions(inp.graph, inp.node_id)
       /\ \A i \in 1..Len(out.neighbors) :
             Occurrences(out.neighbors, out.neighbors[i]) = 1

(***************************************************************************)
(* Hops with a checkpoint the graph lacks (SpecPlan)                       *)
(***************************************************************************)
\* some hop of the plan has a checkpoint that is no node of the graph
SomeCheckpointAbsent ==
    /\ pc = "planned"
    /\ \E i \in 1..Len(out.checkpoints) : out.checkpoints[i] \notin NodeSet(inp.graph)
    /\ Len(out.checkpoints) > 1

\* hop i ends on or starts from a checkpoint that is no node of the graph
HopOffGraph(i) ==
    \/ out.checkpoints[i] \notin NodeSet(inp.graph)
    \/ out.checkpoints[i + 1] \notin NodeSet(inp.graph)

\* the hop has the navigation steps of its path, ending on b, followed by
\* the parameter steps of b
ContributesSteps(hop, b) ==
    /\ hop.status \in {"solver", "graph_bfs"}
    /\ Len(hop.path_nodes) >= 2
    /\ Len(hop.steps) = Len(hop.path_nodes) - 1
                        + Len(_build_param_steps(0, b, inp.intent))
    /\ hop.steps[Len(hop.path_nodes) - 1].expected_screen = b
    /\ SubSeq(hop.steps, Len(hop.path_nodes), Len(hop.steps))
          = _build_param_steps(hop.steps[1].index + Len(hop.path_nodes) - 1,
                               b, inp.intent)

RECURSIVE StepsOfHops(_, _)
StepsOfHops(hops, i) ==
    IF i > Len(hops) THEN <<>> ELSE hops[i].steps \o StepsOfHops(hops, i + 1)

\* the hops the loop of plan() built are as C20 says
HopsSkipAbsent ==
    /\ Len(out.hops) = Len(out.checkpoints) - 1
    /\ \A i \in 1..Len(out.hops) :
          /\ HopOffGraph(i) =>
                out.hops[i].status = "compile_failed" /\ out.hops[i].steps = <<>>
          /\ (HopInGraph(i)
              /\ Reachable(inp.graph, out.checkpoints[i], out.checkpoints[i + 1]))
                => ContributesSteps(out.hops[i], out.checkpoints[i + 1])

\* C20: when a checkpoint of some hop is absent from the graph, plan()
\* returns a plan; the hops with an absent checkpoint contribute no step,
\* every hop between two connected nodes of the graph contributes its
\* navigation steps and the parameter steps of its end, and the plan's steps
\* are the steps of the hops in order.
C20_AbsentCheckpointSkipped ==
    SomeCheckpointAbsent =>
       /\ out.raised = "none"
       /\ HopsSkipAbsent
       /\ out.plan.steps = StepsOfHops(out.hops, 1)

(***************************************************************************)
(* Corridors of the compiled field (SpecCompile).  After Compile the       *)
(* compiler's grid is the field; after SolveCompiled out is what infer     *)
(* returned on it.                                                         *)
(***************************************************************************)
\* the pairs (u, v) the graph has as an explicit edge or as an entry of u's
\* neighbor list
TracedPairs(graph) ==
    {<<graph.edges[i].from_node, graph.edges[i].to_node>> : i \in 1..Len(graph.edges)}
    \cup UNION {{<<n, graph.nbr[n][i]>> : i \in 1..Len(graph.nbr[n])} :
                 n \in DOMAIN graph.nbr}

\* the cells of the L from p to q: along p's row from p's column to q's
\* column, then along q's column to q's row
Corridor(p, q) ==
    {<<p[1], c>> : c \in Min(p[2], q[2])..Max(p[2], q[2])}
    \cup {<<r, q[2]>> : r \in Min(p[1], q[1])..Max(p[1], q[1])}

\* the placed nodes found from the frontier by transitions between placed
\* nodes; st is [seen, frontier]
placed_step(graph, placed, st) ==
    LET found == (UNION {Successors(graph, n) : n \in st.frontier} \cap placed)
                 \ st.seen
    IN [seen |-> st.seen \cup found, frontier |-> found]

RECURSIVE placed_run(_, _, _, _)
placed_run(graph, placed, st, k) ==
    IF st.frontier = {} THEN st
    ELSE IF k = 0 THEN placed_step(graph, placed, st)
    ELSE placed_run(graph, placed, placed_run(graph, placed, st, k - 1), k - 1)

RECURSIVE placed_loop(_, _, _, _)
placed_loop(graph, placed, st, k) ==
    IF st.frontier = {} THEN st
    ELSE placed_loop(graph, placed, placed_run(graph, placed, st, k), k + 1)

\* b can be reached from a in the graph through nodes that have a position
ReachableThroughPlaced(graph, placed, a, b) ==
    /\ a \in placed
    /\ b \in placed_loop(graph, placed, [seen |-> {a}, frontier |-> {a}], 0).seen

\* C21: after compile every cell of the L-shaped corridor of every explicit
\* edge and every neighbor-list entry between two placed nodes is not WALL,
\* and when the target can be reached from the start in the graph through
\* placed nodes the breadth-first solver finds a cell path on the field.
C21_CorridorsOpen ==
    /\ (pc = "compiled" /\ out.raised = "none") =>
          \A pair \in TracedPairs(inp.graph) :
             (pair[1] \in DOMAIN node_positions /\ pair[2] \in DOMAIN node_positions) =>
                \A cell \in Corridor(node_positions[pair[1]], node_positions[pair[2]]) :
                   grid[cell[1]][cell[2]] /= WALL
    /\ (/\ pc = "solved"
        /\ ReachableThroughPlaced(inp.graph, DOMAIN node_positions,
                                  inp.start_node, inp.target_node))
          => out.success /\ out.path /= <<>>

(***************************************************************************)
(* The breadth-first fallback of infer (SpecOracle).  inp is the grid, hrm *)
(* what the neural model does on it, out the pair infer returned.          *)
(***************************************************************************)
\* what the breadth-first reference solver finds on the grid, <<>> if
\* nothing or if the grid has no START or no TARGET cell
BreadthFirstPath(g) ==
    LET start == FindToken(g.grid, g.width, g.height, START)
        target == FindToken(g.grid, g.width, g.height, TARGET)
    IN IF start = <<>> \/ target = <<>> THEN <<>>
       ELSE _bfs_solve(g.grid, start, target, g.width, g.height)

\* the model predicted more or fewer tokens than the grid has cells: the
\* reshape raises during inference
Misshaped(g, model) ==
    /\ model.kind = "output"
    /\ reshape_raises(model.output_grid, g.height, g.width)

\* the model predicted a grid from which no complete path can be extracted
NothingExtracted(g, model) ==
    /\ model.kind = "output"
    /\ ~Misshaped(g, model)
    /\ FindToken(g.grid, g.width, g.height, START) /= <<>>
    /\ FindToken(g.grid, g.width, g.height, TARGET) /= <<>>
    /\ _extract_path_from_output(model.output_grid,
                                 FindToken(g.grid, g.width, g.height, START),
                                 FindToken(g.grid, g.width, g.height, TARGET),
                                 g.width, g.height) = <<>>

\* C22: whenever the breadth-first solver finds a path on the grid, infer
\* returns success with a non-empty path whatever the neural model does;
\* with a model that is not loaded, that raises (in its forward pass or in
\* the reshape of its predictions), or whose output yields no complete path,
\* infer returns the breadth-first path itself.
C22_FallsBackToBreadthFirst ==
    pc = "inferred" =>
       /\ BreadthFirstPath(inp) /= <<>> => (out.success /\ out.path /= <<>>)
       /\ (\/ hrm.kind \in {"bfs", "raises"}
           \/ Misshaped(inp, hrm)
           \/ NothingExtracted(inp, hrm)) =>
             /\ out.path = BreadthFirstPath(inp)
             /\ out.success = (BreadthFirstPath(inp) /= <<>>)

\* a 3 x 3 grid with a WALL on which the model predicts nothing usable and
\* infer still returns the breadth-first path
C22_Witness ==
    /\ pc = "inferred"
    /\ inp.width = 3 /\ inp.height = 3
    /\ WALL \in {inp.grid[i] : i \in 1..Len(inp.grid)}
    /\ NothingExtracted(inp, hrm)
    /\ out.success
    /\ Len(out.path) >= 4
    /\ out.path = BreadthFirstPath(inp)

(***************************************************************************)
(* The path of the breadth-first solver (SpecSolve)                        *)
(***************************************************************************)
UpDownLeftRight == <<(<<-1, 0>>), (<<1, 0>>), (<<0, -1>>), (<<0, 1>>)>>

\* rings[k + 1] is the set of open cells at most k moves away from cell t
RingsAround(g, t) ==
    [k \in 1..(Len(g.grid) + 1) |-> ReachedWithin({t}, OpenCells(g), k - 1)]

\* the number of moves between p and the centre of the rings
Hops(rings, p) ==
    (CHOOSE k \in 1..Len(rings) :
        p \in rings[k] /\ \A h \in 1..(k - 1) : p \notin rings[h]) - 1

\* from p, the shortest path to the centre of the rings that at every cell
\* takes the first of up, down, left, right that brings it one move closer
RECURSIVE FirstShortest(_, _)
FirstShortest(rings, p) ==
    IF Hops(rings, p) = 0 THEN <<p>>
    ELSE LET closer(i) ==
                 LET q == <<p[1] + UpDownLeftRight[i][1], p[2] + UpDownLeftRight[i][2]>>
                 IN q \in rings[Hops(rings, p)]
             i == CHOOSE j \in 1..4 : closer(j) /\ \A h \in 1..(j - 1) : ~closer(h)
         IN <<p>> \o FirstShortest(rings, <<p[1] + UpDownLeftRight[i][1],
                                             p[2] + UpDownLeftRight[i][2]>>)

PathAsClaimed(g, path, start, target, rings) ==
    /\ path[1] = start
    /\ path[Len(path)] = target
    /\ \A i \in 1..Len(path) : path[i] \in OpenCells(g)
    /\ \A i \in 1..(Len(path) - 1) : Adjacent(path[i], path[i + 1])
    /\ Len(path) - 1 = Hops(rings, start)
    /\ path = FirstShortest(rings, start)

\* C23: a path the breadth-first solver returns starts at the START cell,
\* ends at the TARGET cell, moves one step up, down, left or right at a time
\* over non-WALL cells, has the least number of moves of all such paths, and
\* among the shortest paths is the one that at every cell takes the first of
\* up, down, left, right leading to the target in the least number of moves.
C23_ShortestPathInOrder ==
    (pc = "inferred" /\ out.path /= <<>>) =>
       /\ OneOfEach(inp)
       /\ LET start == CellAt(CHOOSE i \in CellsOf(inp.grid, START) : TRUE, inp.width)
              target == CellAt(CHOOSE i \in CellsOf(inp.grid, TARGET) : TRUE, inp.width)
          IN PathAsClaimed(inp, out.path, start, target, RingsAround(inp, target))

\* on the open 2 x 2 grid with START below left and TARGET above right both
\* ways round are shortest; the solver returns the one that goes up first
C23_Witness ==
    /\ pc = "inferred"
    /\ inp.width = 2 /\ inp.height = 2
    /\ inp.grid = <<PATH, TARGET, START, PATH>>
    /\ out.path = <<(<<1, 0>>), (<<0, 0>>), (<<0, 1>>)>>

(***************************************************************************)
(* The node paths of the hops (SpecPlan)                                   *)
(***************************************************************************)
\* every consecutive pair (u, v) of the node path has v in get_neighbors(u)
FollowsTransitions(graph, path_nodes) ==
    \A j \in 1..(Len(path_nodes) - 1) :
        InSeq(path_nodes[j + 1], get_neighbors(graph, path_nodes[j]))

\* C24: every navigation step of a plan is a transition of the graph: in
\* the node path of every hop, whether decoded from the solver's cell path or
\* found by the breadth-first search over the graph, each node is followed
\* by one of its neighbors, and the hop has one navigation step for each
\* such pair.
C24_StepsAreTransitions ==
    pc = "planned" =>
       \A i \in 1..Len(out.hops) :
          out.hops[i].status \in {"solver", "graph_bfs"} =>
             /\ FollowsTransitions(inp.graph, out.hops[i].path_nodes)
             /\ \A j \in 1..(Len(out.hops[i].path_nodes) - 1) :
                   out.hops[i].steps[j].expected_screen = out.hops[i].path_nodes[j + 1]

(***************************************************************************)
(* The canonical sequence within the resolved checkpoints (SpecPlan)       *)
(***************************************************************************)
\* the entries of s from the i-th on occur in t from the j-th on, in order
RECURSIVE OccursInOrder(_, _, _, _)
OccursInOrder(s, i, t, j) ==
    IF i > Len(s) THEN TRUE
    ELSE IF j > Len(t) THEN FALSE
    ELSE IF s[i] = t[j] THEN OccursInOrder(s, i + 1, t, j + 1)
    ELSE OccursInOrder(s, i, t, j + 1)

IsSubsequence(s, t) == OccursInOrder(s, 1, t, 1)

\* C25: for every intent with a table entry and every current screen the
\* resolved checkpoint sequence contains all checkpoints of the intent's
\* canonical sequence in their canonical order.
C25_CanonicalSubsequence ==
    (pc = "resolved" /\ HasTableEntry(inp.intent)) =>
       IsSubsequence(INTENT_CHECKPOINTS[TableKey(inp.intent)], out.checkpoints)

(***************************************************************************)
(* The indices of the steps of a plan (SpecPlan)                           *)
(***************************************************************************)
\* C26: in every plan that plan() returns the i-th step has index i,
\* counting from zero, whatever hops were skipped and whatever
\* parameter-filling steps were appended.
C26_IndicesContiguous ==
    (pc = "planned" /\ out.raised = "none") =>
       \A i \in 1..Len(out.plan.steps) : out.plan.steps[i].index = i - 1

\* a returned plan with a skipped hop and with parameter-filling steps
\* between navigation steps
C26_Witness ==
    /\ pc = "planned"
    /\ out.raised = "none"
    /\ \E i \in 1..Len(out.hops) : out.hops[i].status \in {"compile_failed", "no_path"}
    /\ Len(out.plan.steps) >= 5
    /\ \E i \in 2..(Len(out.plan.steps) - 1) :
          /\ out.plan.steps[i].action = "fill"
          /\ out.plan.steps[i + 1].action /= "fill"
          /\ out.plan.steps[i + 1].expected_screen /= out.plan.steps[i].expected_screen
    /\ out.plan.steps[Len(out.plan.steps)].index = Len(out.plan.steps) - 1

(***************************************************************************)
(* What precedes plan_complete (Spec).  plan_log holds, per request id,    *)
(* the step indices reported successful since its plan was stored.         *)
(***************************************************************************)
\* the step emits plan_complete for the plan stored under r: the send of a
\* plan_complete with that request id returns
Completes(r) ==
    /\ r \in DOMAIN active_plans
    /\ out.in_flight = "plan_complete"
    /\ out.sent[Len(out.sent)].requestId = r
    /\ Ends
    /\ out'.raised = "none"

\* C27 as stated: a plan of n >= 1 steps is reported complete (plan_complete
\* sent, plan removed) only after a success action_result was received for
\* each of its step indices 0 .. n-1.
C27_EveryStepReported ==
    [][\A r \in DOMAIN active_plans :
          (Completes(r) /\ Len(active_plans[r].steps) >= 1) =>
             /\ r \notin DOMAIN active_plans'
             /\ \A k \in 0..(Len(active_plans[r].steps) - 1) :
                   k \in plan_log'[r].succeeded]_vars

\* C27, amended: a plan of n >= 1 steps is reported complete only by a
\* success action_result for its requestId whose step index is at or past
\* its last (stepIndex >= n - 1); the plan is removed in the same step, and
\* the earlier step indices need not have been reported.
C27_LastStepReported ==
    [][\A r \in DOMAIN active_plans :
          (Completes(r) /\ Len(active_plans[r].steps) >= 1) =>
             /\ pc' = "action_result"
             /\ inp'.msg.requestId = r
             /\ inp'.msg.payload.success
             /\ inp'.msg.payload.stepIndex >= Len(active_plans[r].steps) - 1
             /\ r \notin DOMAIN active_plans'
             /\ plan_log'[r].delivered = 1]_vars

\* the plan of two steps was reported complete by the first report received
\* for it, a success on step index 1: no success was reported for index 0
C27_Witness ==
    /\ pc = "action_result"
    /\ "r1" \in DOMAIN plan_log
    /\ plan_log["r1"] = [succeeded |-> {1}, completes |-> 1, delivered |-> 1]
    /\ "r1" \notin DOMAIN active_plans
    /\ out.in_flight = "none"
    /\ Len(out.sent) = 1
    /\ out.sent[1].type = "plan_complete"
    /\ out.sent[1].requestId = "r1"

(***************************************************************************)
(* The messages a voice_command sends (Spec)                               *)
(***************************************************************************)
\* C29: for every voice_command intent_confirmed is sent, with its request
\* id, before any explore_request or execute_plan with the same request id,
\* and at most one explore_request or execute_plan is sent for it, never
\* both.  Stated of the messages passed to the connection in order, of
\* which the messages emitted are the first ones.
C29_ConfirmedThenOne ==
    pc = "voice_command" =>
       LET follow == SentOfType(out.sent, "explore_request")
                     \cup SentOfType(out.sent, "execute_plan")
       IN /\ out.sent /= <<>>
          /\ out.sent[1].type = "intent_confirmed"
          /\ out.sent[1].requestId = voice_request_id(inp.msg)
          /\ \A i \in follow :
                \E j \in 1..(i - 1) :
                   /\ out.sent[j].type = "intent_confirmed"
                   /\ out.sent[j].requestId = out.sent[i].requestId
          /\ Cardinality(follow) <= 1

\* a voice_command on an app whose graph is stored: intent_confirmed, then
\* execute_plan with the same requestId, and no explore_request
C29_Witness ==
    /\ pc = "voice_command"
    /\ Len(out.sent) = 2
    /\ out.sent[1].type = "intent_confirmed"
    /\ out.sent[2].type = "execute_plan"
    /\ out.sent[2].requestId = out.sent[1].requestId
    /\ out.raised = "none"
    /\ out.in_flight = "none"
    /\ voice_request_id(inp.msg) \in DOMAIN active_plans

(***************************************************************************)
(* The cells layout and tracing touch (SpecCompile).  Layout writes the    *)
(* cell of every node; tracing reads and writes the cells of the corridors *)
(* between placed nodes.                                                   *)
(***************************************************************************)
Field == (0..(GRID_SIZE - 1)) \X (0..(GRID_SIZE - 1))

Interior == ((BORDER + 1)..(GRID_SIZE - BORDER - 1))
            \X ((BORDER + 1)..(GRID_SIZE - BORDER - 1))

\* the cells of the corridors of the pairs whose nodes both have a position
CorridorCells(graph, np) ==
    UNION {Corridor(np[pair[1]], np[pair[2]]) :
             pair \in {q \in TracedPairs(graph) :
                          q[1] \in DOMAIN np /\ q[2] \in DOMAIN np}}

\* C30: layout and tracing touch no cell outside rows and columns 0 .. N-1,
\* and the probing loop ends for every node, also when the graph has more
\* nodes than the field holds: every node has a cell of the field, found
\* free in the interior or, when the loop ended at its break, the cell
\* (N - BORDER, BORDER + 1); every corridor cell is a cell of the field, and
\* the non-WALL cells are node cells and corridor cells only.
C30_WithinField ==
    pc = "compiled" =>
       /\ DOMAIN node_positions = NodeSet(inp.graph)
       /\ \A n \in DOMAIN node_positions :
             /\ node_positions[n] \in Field
             /\ IF n \in out.exhausted
                THEN node_positions[n] = <<GRID_SIZE - BORDER, BORDER + 1>>
                ELSE /\ node_positions[n] \in Interior
                     /\ position_to_node[node_positions[n]] = n
       /\ CorridorCells(inp.graph, node_positions) \subseteq Field
       /\ {cell \in Field : grid[cell[1]][cell[2]] /= WALL}
             \subseteq Positions(node_positions)
                       \cup CorridorCells(inp.graph, node_positions)

\* a chain of more nodes than the field holds was laid out and traced: the
\* probing of its last nodes ended at the break
C30_Witness ==
    /\ pc = "compiled"
    /\ Len(inp.graph.ids) > Capacity
    /\ out.exhausted /= {}
    /\ Cardinality(DOMAIN node_positions) = Len(inp.graph.ids)
    /\ grid[GRID_SIZE - BORDER][BORDER + 1] /= WALL

(***************************************************************************)
(* Reports after plan_complete (SpecExecute).  plan_log counts, per        *)
(* request id, the plan_complete emitted since its plan was stored.        *)
(***************************************************************************)
\* the step handles an action_result whose requestId had its plan reported
\* complete, no voice_command having stored a plan under it since
ReportsAfterComplete ==
    /\ handled' = handled + 1
    /\ pc' = "action_result"
    /\ inp'.msg.requestId \in DOMAIN plan_log
    /\ plan_log[inp'.msg.requestId].delivered >= 1

\* C28: at most one plan_complete is emitted per stored plan, and once it
\* has been emitted for a requestId an action_result with that requestId
\* sends nothing and changes no state of the service, until a voice_command
\* stores a plan under that requestId again.
C28_CompleteOnce ==
    /\ [](\A r \in DOMAIN plan_log : plan_log[r].delivered <= 1)
    /\ [][ReportsAfterComplete =>
            /\ out'.sent = <<>>
            /\ out'.raised = "none"
            /\ out'.in_flight = "none"
            /\ UNCHANGED <<compiler_vars, app_graphs, current_screen, active_plans,
                           hrm>>]_vars

\* a success report for the last step arrived for r1 after its plan had
\* been reported complete: nothing was sent, and the plan is still counted
\* complete once
C28_Witness ==
    /\ pc = "action_result"
    /\ inp.msg.requestId = "r1"
    /\ inp.msg.payload.success
    /\ inp.msg.payload.stepIndex = 1
    /\ inp.msg.payload.newScreenFingerprint = "transfers"
    /\ "r1" \in DOMAIN plan_log
    /\ plan_log["r1"].delivered = 1
    /\ "r1" \notin DOMAIN active_plans
    /\ out.sent = <<>>
====
